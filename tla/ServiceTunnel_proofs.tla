------------------------ MODULE ServiceTunnel_proofs ------------------------
(***************************************************************************)
(* Proofs about the rules of a tunnel, for any servers, sites, options and *)
(* number of faults: that a tunnel with its kill switch on is sealed, and  *)
(* that its server stays reachable.                                        *)
(*                                                                         *)
(* They rest on the invariants of ServiceSession_proofs and on two more:   *)
(*   Listed       only sites are ever listed as blocked                    *)
(*   ArmedTunnel  which rules a tunnel finds in the firewall               *)
(***************************************************************************)
EXTENDS ServiceSession_proofs

-----------------------------------------------------------------------------
(***************************************************************************)
(* The rules that decide about a tunnel's own traffic.                     *)
(***************************************************************************)
On(fw, a) == <<a, 4>> \in fw.on

\* Only sites are ever listed as blocked.
Listed(fw) == fw.blockNets \subseteq Sites

\* More chains that exist (install), and the one that does not.
LEMMA MoreChains ==
  /\ {<<allowNets, 4>>, <<blockNets, 4>>, <<allowMarkedXray, 4>>, <<blockAll, 4>>} \subseteq Chains
  /\ <<blockIPv6, 4>> \notin Chains
<1>1. /\ \A a \in {8, 9, 10, 11} : <<a, 4>> \in Chains
      /\ <<6, 4>> \notin Chains
  BY Numbers DEF Chains, Anchors
<1>2. QED BY <1>1, Numbers

\* Both forms of replacing the listed networks (updateAllowNets, updateBlockNets).
LEMMA UpdateEffect ==
  ASSUME NEW fw \in Firewalls, fw.installed, NEW nets
  PROVE  /\ nets \in SUBSET Nets =>
              LET t == updateAllowNets(fw, nets)
              IN  /\ t \in Firewalls /\ t.installed /\ t.on = fw.on
                  /\ t.allowNets = nets /\ t.blockNets = fw.blockNets
         /\ nets \in SUBSET Addresses =>
              LET t == updateBlockNets(fw, nets)
              IN  /\ t \in Firewalls /\ t.installed /\ t.on = fw.on
                  /\ t.blockNets = nets /\ t.allowNets = fw.allowNets
BY DEF updateAllowNets, updateBlockNets, Firewalls

\* The common rules of the tunnels leave those four chains alone.
LEMMA TunnelRulesEffect ==
  ASSUME NEW fw \in Firewalls
  PROVE  LET t == TunnelRules(fw)
         IN  /\ t.installed = fw.installed /\ t.allowNets = fw.allowNets
             /\ t.blockNets = fw.blockNets
             /\ \A a \in {blockAll, blockNets, allowNets, allowMarkedXray} :
                  On(t, a) <=> On(fw, a)
<1> DEFINE f1 == enableAnchors(fw, Both, {allowLoopback, allowDHCP, allowLAN})
           f2 == enableAnchors(f1, IPv4, {allowVPN, blockDNS, allowDNS})
           f3 == enableAnchors(f2, IPv6, {blockIPv6})
           Same(g) == /\ g \in Firewalls /\ g.installed = fw.installed
                      /\ g.allowNets = fw.allowNets /\ g.blockNets = fw.blockNets
                      /\ \A a \in {blockAll, blockNets, allowNets, allowMarkedXray} :
                           <<a, 4>> \in g.on <=> <<a, 4>> \in fw.on
<1>1. Same(f1)
  BY EnableFacts, Numbers
<1>2. Same(f2)
  <2> HIDE DEF f1
  <2> QED BY <1>1, EnableFacts, Numbers
<1>3. Same(f3)
  <2> HIDE DEF f2
  <2> QED BY <1>2, EnableFacts, Numbers
<1>4. TunnelRules(fw) = f3
  BY DEF TunnelRules
<1> HIDE DEF f3
<1>5. QED BY <1>3, <1>4 DEF On

\* What an OpenVPN or Xray tunnel switches on (KillSwitch::enableKillSwitch).
LEMMA EnableKillSwitchEffect ==
  ASSUME NEW x \in ServiceStates, NEW c \in Configs
  PROVE  LET t == enableKillSwitch(x, c)
         IN  /\ t.fw.installed /\ t.ranges = x.ranges /\ Listed(t.fw)
             /\ On(t.fw, allowMarkedXray)
             /\ c.split # 1 => On(t.fw, blockAll) /\ On(t.fw, allowNets) /\ c.host \in t.fw.allowNets
             /\ c.split = 1 => ~On(t.fw, blockAll)
<1> DEFINE all == c.split # 1
           g1  == IF all THEN ExcludedAddresses(c) ELSE {}
           g2  == IF all THEN {} ELSE Sites
           f0  == IF x.fw.installed THEN x.fw ELSE install
           f1  == setAnchorEnabled(f0, Both, {blockAll}, all)
           f2  == setAnchorEnabled(f1, IPv4, {allowNets, blockNets}, all)
           f3  == updateAllowNets(f2, g1)
           f4  == updateBlockNets(f3, g2)
           f5  == enableAnchors(f4, Both, {allowMarkedXray})
           f6  == TunnelRules(f5)
<1>1. f0 \in Firewalls /\ f0.installed
  BY StateFacts, InstallFacts
<1>2. /\ g1 \in SUBSET Nets /\ g2 \in SUBSET Addresses /\ g2 \subseteq Sites
      /\ all => c.host \in g1
  BY ConfigFacts DEF ExcludedAddresses
<1>3. enableKillSwitch(x, c) = [x EXCEPT !.fw = f6]
  BY DEF enableKillSwitch
<1> HIDE DEF f0, g1, g2
<1>4. f1 \in Firewalls /\ f1.installed /\ (all <=> <<blockAll, 4>> \in f1.on)
  BY <1>1, EnableFacts, DisableFacts, MoreChains, Numbers DEF setAnchorEnabled
<1> HIDE DEF f1
<1>5. /\ f2 \in Firewalls /\ f2.installed /\ (all <=> <<blockAll, 4>> \in f2.on)
      /\ all => <<allowNets, 4>> \in f2.on
  BY <1>4, EnableFacts, DisableFacts, MoreChains, Numbers DEF setAnchorEnabled
<1> HIDE DEF f2
<1>6. /\ f3 \in Firewalls /\ f3.installed /\ f3.on = f2.on /\ f3.allowNets = g1
  BY <1>2, <1>5, UpdateEffect
<1> HIDE DEF f3
<1>7. /\ f4 \in Firewalls /\ f4.installed /\ f4.on = f2.on /\ f4.allowNets = g1
      /\ f4.blockNets = g2
  BY <1>2, <1>6, UpdateEffect
<1> HIDE DEF f4
<1>8. /\ f5 \in Firewalls /\ f5.installed /\ f5.allowNets = g1 /\ f5.blockNets = g2
      /\ <<allowMarkedXray, 4>> \in f5.on
      /\ <<blockAll, 4>> \in f5.on <=> <<blockAll, 4>> \in f2.on
      /\ <<allowNets, 4>> \in f5.on <=> <<allowNets, 4>> \in f2.on
  BY <1>7, EnableFacts, MoreChains, Numbers
<1> HIDE DEF f5
<1>9. /\ f6.installed /\ f6.allowNets = g1 /\ f6.blockNets = g2 /\ On(f6, allowMarkedXray)
      /\ On(f6, blockAll) <=> all
      /\ all => On(f6, allowNets)
  BY <1>5, <1>8, TunnelRulesEffect DEF On
<1> HIDE DEF f6
<1>10. enableKillSwitch(x, c).fw = f6 /\ enableKillSwitch(x, c).ranges = x.ranges
  BY <1>3 DEF ServiceStates
<1>11. QED BY <1>2, <1>9, <1>10 DEF Listed

\* What a WireGuard tunnel switches on (WireguardUtilsLinux::applyFirewallRules).
LEMMA ApplyFirewallRulesEffect ==
  ASSUME NEW x \in ServiceStates, NEW c \in Configs
  PROVE  LET t == applyFirewallRules(x, c)
         IN  /\ t.fw.installed /\ t.ranges = x.ranges /\ Listed(t.fw)
             /\ c.split # 1 => On(t.fw, blockAll) /\ On(t.fw, allowNets) /\ c.host \in t.fw.allowNets
             /\ c.split = 1 => /\ On(t.fw, blockNets) /\ Sites \subseteq t.fw.blockNets
                               /\ ~On(t.fw, blockAll)
<1> DEFINE all == c.split # 1
           g1  == IF all THEN ExcludedAddresses(c) ELSE {}
           g2  == IF all THEN {} ELSE Sites
           f0  == IF x.fw.installed THEN x.fw ELSE install
           f1  == setAnchorEnabled(f0, Both, {blockAll}, all)
           f2  == setAnchorEnabled(f1, IPv4, {allowNets}, all)
           f3  == updateAllowNets(f2, g1)
           f4  == setAnchorEnabled(f3, IPv4, {blockNets}, ~all)
           f5  == updateBlockNets(f4, g2)
           f6  == TunnelRules(f5)
<1>1. f0 \in Firewalls /\ f0.installed
  BY StateFacts, InstallFacts
<1>2. /\ g1 \in SUBSET Nets /\ g2 \in SUBSET Addresses /\ g2 \subseteq Sites
      /\ all => c.host \in g1
      /\ ~all => g2 = Sites
  BY ConfigFacts DEF ExcludedAddresses
<1>3. applyFirewallRules(x, c) = [x EXCEPT !.fw = f6]
  BY DEF applyFirewallRules
<1> HIDE DEF f0, g1, g2
<1>4. f1 \in Firewalls /\ f1.installed /\ (all <=> <<blockAll, 4>> \in f1.on)
  BY <1>1, EnableFacts, DisableFacts, MoreChains, Numbers DEF setAnchorEnabled
<1> HIDE DEF f1
<1>5. /\ f2 \in Firewalls /\ f2.installed /\ (all <=> <<blockAll, 4>> \in f2.on)
      /\ all => <<allowNets, 4>> \in f2.on
  BY <1>4, EnableFacts, DisableFacts, MoreChains, Numbers DEF setAnchorEnabled
<1> HIDE DEF f2
<1>6. /\ f3 \in Firewalls /\ f3.installed /\ f3.on = f2.on /\ f3.allowNets = g1
  BY <1>2, <1>5, UpdateEffect
<1> HIDE DEF f3
<1>7. /\ f4 \in Firewalls /\ f4.installed /\ f4.allowNets = g1
      /\ ~all => <<blockNets, 4>> \in f4.on
      /\ <<blockAll, 4>> \in f4.on <=> <<blockAll, 4>> \in f2.on
      /\ <<allowNets, 4>> \in f4.on <=> <<allowNets, 4>> \in f2.on
  BY <1>6, EnableFacts, DisableFacts, MoreChains, Numbers DEF setAnchorEnabled
<1> HIDE DEF f4
<1>8. /\ f5 \in Firewalls /\ f5.installed /\ f5.on = f4.on /\ f5.allowNets = g1
      /\ f5.blockNets = g2
  BY <1>2, <1>7, UpdateEffect
<1> HIDE DEF f5
<1>9. /\ f6.installed /\ f6.allowNets = g1 /\ f6.blockNets = g2
      /\ On(f6, blockAll) <=> all
      /\ all => On(f6, allowNets)
      /\ ~all => On(f6, blockNets)
  BY <1>5, <1>7, <1>8, TunnelRulesEffect DEF On
<1> HIDE DEF f6
<1>10. applyFirewallRules(x, c).fw = f6 /\ applyFirewallRules(x, c).ranges = x.ranges
  BY <1>3 DEF ServiceStates
<1>11. QED BY <1>2, <1>9, <1>10 DEF Listed

\* Allowing addresses (KillSwitch::addAllowedRange).
LEMMA AddAllowedRangeEffect ==
  ASSUME NEW x \in ServiceStates, NEW r \in SUBSET Nets
  PROVE  LET t == addAllowedRange(x, r)
         IN  /\ t.ranges = x.ranges \cup r /\ t.strict = x.strict
             /\ t.fw.installed = x.fw.installed /\ t.fw.blockNets = x.fw.blockNets
             /\ \A a : a # allowNets => (On(t.fw, a) <=> On(x.fw, a))
             /\ x.fw.installed => On(t.fw, allowNets) /\ t.fw.allowNets = t.ranges
             /\ ~x.fw.installed => t.fw = x.fw
<1> DEFINE n  == x.ranges \cup r
           f1 == enableAnchors(x.fw, IPv4, {allowNets})
           f2 == updateAllowNets(f1, n)
<1>1. x.fw \in Firewalls /\ n \in SUBSET Nets
  BY StateFacts
<1>2. /\ addAllowedRange(x, r).ranges = n /\ addAllowedRange(x, r).fw = f2
      /\ addAllowedRange(x, r).strict = x.strict
  BY DEF addAllowedRange, resetAllowedRange, ServiceStates
<1> HIDE DEF n
<1>3. /\ f1 \in Firewalls /\ f1.installed = x.fw.installed /\ f1.blockNets = x.fw.blockNets
      /\ \A a : a # allowNets => (<<a, 4>> \in f1.on <=> <<a, 4>> \in x.fw.on)
      /\ x.fw.installed => <<allowNets, 4>> \in f1.on
  BY <1>1, EnableFacts, MoreChains, Numbers
<1>4. ~x.fw.installed => f2 = x.fw
  BY DEF enableAnchors, updateAllowNets
<1> HIDE DEF f1
<1>5. x.fw.installed => f2.installed /\ f2.on = f1.on /\ f2.allowNets = n /\ f2.blockNets = f1.blockNets
  BY <1>1, <1>3, UpdateEffect
<1>6. x.fw.installed \in BOOLEAN
  BY <1>1 DEF Firewalls
<1> HIDE DEF f2
<1>7. QED BY <1>2, <1>3, <1>4, <1>5, <1>6 DEF On, n

\* Letting go keeps the lists of an installed firewall (disableKillSwitch).
LEMMA CloseRulesLists ==
  ASSUME NEW fw \in Firewalls
  PROVE  CloseRules(fw).blockNets = fw.blockNets
<1> DEFINE f1 == enableAnchors(fw, Both, {allowLoopback, blockAll})
           f2 == enableAnchors(f1, IPv6, {blockIPv6})
           f3 == disableAnchors(f2, Both, {allowMarkedXray, allowDHCP, allowLAN})
           f4 == disableAnchors(f3, IPv4, {allowNets, blockNets, allowVPN, blockDNS, allowDNS})
<1>1. f1 \in Firewalls /\ f1.blockNets = fw.blockNets
  BY EnableFacts
<1>2. f2 \in Firewalls /\ f2.blockNets = fw.blockNets
  <2> HIDE DEF f1
  <2> QED BY <1>1, EnableFacts
<1>3. f3 \in Firewalls /\ f3.blockNets = fw.blockNets
  <2> HIDE DEF f2
  <2> QED BY <1>2, DisableFacts
<1>4. f4.blockNets = fw.blockNets
  <2> HIDE DEF f3
  <2> QED BY <1>3, DisableFacts
<1>5. QED BY <1>4 DEF CloseRules

\* So does blocking everything (disableAllTraffic).
LEMMA DisableAllTrafficLists ==
  ASSUME NEW x \in ServiceStates, Listed(x.fw)
  PROVE  Listed(disableAllTraffic(x).fw)
<1> DEFINE f0 == IF x.fw.installed THEN x.fw ELSE install
           f1 == enableAnchors(f0, Both, {blockAll, allowLoopback})
           f2 == disableAnchors(f1, Both, {allowMarkedXray})
           f3 == enableAnchors(f2, IPv6, {blockIPv6})
<1>0. install.blockNets = {}
  BY DEF install, uninstall
<1>1. f0 \in Firewalls /\ Listed(f0)
  BY <1>0, StateFacts, InstallFacts DEF Listed
<1>2. f1 \in Firewalls /\ f1.blockNets = f0.blockNets
  <2> HIDE DEF f0
  <2> QED BY <1>1, EnableFacts
<1>3. f2 \in Firewalls /\ f2.blockNets = f0.blockNets
  <2> HIDE DEF f1, f0
  <2> QED BY <1>2, DisableFacts
<1>4. f3.blockNets = f0.blockNets
  <2> HIDE DEF f2, f0
  <2> QED BY <1>3, EnableFacts
<1>5. disableAllTraffic(x).fw = f3
  BY DEF disableAllTraffic, ServiceStates
<1> HIDE DEF f3, f0
<1>6. QED BY <1>1, <1>4, <1>5 DEF Listed

\* Every function of the kill switch, and the deactivation, list only sites as blocked.
LEMMA ListedKept ==
  ASSUME NEW x, Sound(x), Listed(x.fw)
  PROVE  /\ Listed(disableKillSwitch(x).fw) /\ Listed(init(x).fw) /\ Listed(deactivate(x).fw)
         /\ \A b \in BOOLEAN : Listed(refresh(x, b).fw)
         /\ \A r \in SUBSET Nets : Listed(addAllowedRange(x, r).fw)
         /\ \A c \in Configs : Listed(armed(x, c).fw)
<1>0. x \in ServiceStates /\ x.fw \in Firewalls
  BY StateFacts DEF Sound
<1>1. uninstall.blockNets = {} /\ Listed(uninstall) /\ Listed(CloseRules(x.fw))
  BY <1>0, CloseRulesLists DEF Listed, uninstall
<1>2. Listed(disableKillSwitch(x).fw)
  BY <1>0, <1>1 DEF disableKillSwitch, ServiceStates
<1>3. ASSUME NEW b \in BOOLEAN PROVE Listed(refresh(x, b).fw)
  <2> DEFINE y == [x EXCEPT !.strict = b]
  <2>1. y \in ServiceStates /\ y.fw = x.fw
    BY <1>0 DEF ServiceStates
  <2>2. refresh(x, b) = IF b THEN disableAllTraffic(y) ELSE disableKillSwitch(y)
    BY DEF refresh
  <2> HIDE DEF y
  <2>3. Listed(disableKillSwitch(y).fw)
    BY <1>1, <2>1 DEF disableKillSwitch, ServiceStates
  <2>4. QED BY <2>1, <2>2, <2>3, DisableAllTrafficLists
<1>4. Listed(init(x).fw)
  BY <1>0, DisableAllTrafficLists DEF init
<1>5. ASSUME NEW r \in SUBSET Nets PROVE Listed(addAllowedRange(x, r).fw)
  BY <1>0, AddAllowedRangeEffect DEF Listed
<1>6. ASSUME NEW c \in Configs PROVE Listed(armed(x, c).fw)
  BY <1>0, EnableKillSwitchEffect DEF armed
<1>7. Listed(deactivate(x).fw)
  BY <1>0, <1>1, DeactivateEffect DEF SameKillSwitch
<1>8. QED BY <1>2, <1>3, <1>4, <1>5, <1>6, <1>7

\* The rules after a part of an activation (Daemon::activate and its waits).
LEMMA OutcomeRules ==
  ASSUME NEW x, Sound(x)
  PROVE  /\ \A c \in Configs : \A o \in activate(x, c) : o.s.fw \in {x.fw, deactivate(x).fw}
         /\ \A f \in Frames : f # NoFrame =>
              \A o \in resume(x, f) : o.s.fw \in {x.fw, applyFirewallRules(x, f.c).fw}
<1>1. ASSUME NEW y, Sound(y), NEW c \in Configs, NEW o \in bringUp(y, c)
      PROVE  o.s.fw = y.fw
  <2>1. o \in Failed(y, c) \/ o = Outcome(Around(y, c), "peer", c, NoConfig)
    BY <1>1 DEF bringUp, Around
  <2>2. Around(y, c).fw = y.fw
    BY <1>1, AroundEffect DEF SameKillSwitch
  <2>3. QED BY <2>1, <2>2 DEF Failed, Outcome
<1>2. ASSUME NEW y, Sound(y), NEW c \in Configs, NEW o \in activateOff(y, c)
      PROVE  o.s.fw = y.fw
  <2> DEFINE t == [y EXCEPT !.proc = "running"]
  <2>1. \/ o \in bringUp(y, c) \/ o \in Failed(y, c) \/ o = Outcome(t, "name", c, NoConfig)
    BY <1>2 DEF activateOff, addInterface
  <2>2. t.fw = y.fw
    BY <1>2 DEF Sound, ServiceStates
  <2> HIDE DEF t
  <2>3. QED BY <1>1, <1>2, <2>1, <2>2 DEF Failed, Outcome
<1>3. ASSUME NEW c \in Configs, NEW o \in activate(x, c)
      PROVE  o.s.fw \in {x.fw, deactivate(x).fw}
  <2>1. Sound(deactivate(x))
    BY DeactivateFacts DEF Keeps
  <2>2. \/ o \in activateOff(x, c) \/ o \in activateOff(deactivate(x), c)
        \/ o \in Failed(deactivate(x), c)
        \/ o = Outcome(Around(x, c), "switch", c, x.conn)
    BY <1>3, ActivateBegins DEF Around, Sound
  <2>3. Around(x, c).fw = x.fw
    BY AroundEffect DEF SameKillSwitch
  <2>4. QED BY <1>2, <2>1, <2>2, <2>3 DEF Failed, Outcome
<1>4. ASSUME NEW f \in Frames, f # NoFrame, NEW o \in resume(x, f)
      PROVE  o.s.fw \in {x.fw, applyFirewallRules(x, f.c).fw}
  <2> DEFINE c == f.c
  <2>1. f.at \in {"name", "setup", "peer", "switch"} /\ c \in Configs /\ x \in ServiceStates
    BY <1>4 DEF Frames, Sound
  <2>2. CASE f.at = "name"
    <3> DEFINE k == [x EXCEPT !.proc = "killed"]
               n == [x EXCEPT !.monitor = TRUE]
    <3>1. o \in Failed(x, c) \/ o \in Failed(k, c) \/ o = Outcome(n, "setup", c, NoConfig)
      BY <1>4, <2>2 DEF resume, nameReady
    <3>2. k.fw = x.fw /\ n.fw = x.fw
      BY <2>1 DEF ServiceStates
    <3> HIDE DEF k, n
    <3>3. QED BY <3>1, <3>2 DEF Failed, Outcome
  <2>3. CASE f.at = "setup"
    <3>1. o \in Failed(x, c) \/ o \in bringUp(IF c.ks THEN applyFirewallRules(x, c) ELSE x, c)
      BY <1>4, <2>3 DEF resume, setupReply
    <3>2. Sound(applyFirewallRules(x, c))
      BY <2>1, ApplyFirewallRulesFacts DEF Keeps
    <3>3. QED BY <1>1, <2>1, <3>1, <3>2 DEF Failed, Outcome
  <2>4. CASE f.at = "peer"
    <3> DEFINE t == [x EXCEPT !.resolvers = TRUE]
               u == [t EXCEPT !.conn = c, !.date = FALSE]
    <3>1. o \in Failed(x, c) \/ o \in Failed(t, c) \/ o = Outcome(u, "done", c, NoConfig)
      BY <1>4, <2>4 DEF resume, peerReply
    <3>2. t.fw = x.fw /\ u.fw = x.fw
      BY <2>1 DEF ServiceStates
    <3> HIDE DEF t, u
    <3>3. QED BY <3>1, <3>2 DEF Failed, Outcome
  <2>5. CASE f.at = "switch"
    <3> DEFINE d == delExclusionRoutes(x, ExcludedAddresses(f.last))
               t == [d EXCEPT !.conn = c, !.date = FALSE, !.resolvers = FALSE]
               u == [t EXCEPT !.resolvers = TRUE]
               v == [t EXCEPT !.date = x.date]
    <3>1. o \in Failed(x, c) \/ o \in Failed(v, c) \/ o = Outcome(u, "done", c, NoConfig)
      BY <1>4, <2>5 DEF resume, switchReply
    <3>2. t.fw = x.fw
      BY <2>1 DEF ServiceStates, delExclusionRoutes
    <3>3. u.fw = t.fw /\ v.fw = t.fw
      BY <2>1 DEF ServiceStates, delExclusionRoutes
    <3> HIDE DEF t, u, v
    <3>4. QED BY <3>1, <3>2, <3>3 DEF Failed, Outcome
  <2>6. QED BY <2>1, <2>2, <2>3, <2>4, <2>5
<1>5. QED BY <1>3, <1>4

\* Every step lists only sites as blocked.
LEMMA ListedStep ==
  ASSUME IInv, Listed(s.fw), [Next]_vars
  PROVE  Listed(s'.fw)
<1>0. /\ RestOK /\ Sound(s) /\ s \in ServiceStates /\ frame \in Frames /\ inbox \in Seq(Commands)
      /\ Sound(stopAgain) /\ Sound(disableKillSwitch(s)) /\ Sound(deactivate(s))
  BY StopAgainFacts, DisableKillSwitchFacts, DeactivateFacts DEF IInv, RestOK, Sound, Keeps
<1>1. CASE UNCHANGED vars
  BY <1>1 DEF vars
<1>2. CASE StartTunnel
  <2>1. PICK h \in Hosts, x \in Options :
          \/ StartWireguard([host |-> h, split |-> x.split, ks |-> x.ks])
          \/ StartOpenVpn([host |-> h, split |-> x.split, ks |-> x.ks])
          \/ StartXray([host |-> h, split |-> x.split, ks |-> x.ks])
    BY <1>2 DEF StartTunnel
  <2> DEFINE c == [host |-> h, split |-> x.split, ks |-> x.ks]
  <2>2. c \in Configs /\ {c.host} \in SUBSET Nets
    BY BoundsAssumption DEF Configs, Nets, Addresses
  <2>3. s' = stopAgain \/ s' = addAllowedRange(disableKillSwitch(stopAgain), {c.host})
    BY <2>1 DEF StartWireguard, StartOpenVpn, StartXray
  <2> HIDE DEF c
  <2>4. Listed(stopAgain.fw)
    BY <1>0, <2>2, ListedKept DEF stopAgain
  <2>5. Listed(disableKillSwitch(stopAgain).fw) /\ Sound(disableKillSwitch(stopAgain))
    BY <1>0, <2>2, <2>4, ListedKept, DisableKillSwitchFacts DEF Keeps
  <2>6. QED BY <2>2, <2>3, <2>4, <2>5, ListedKept
<1>3. CASE UpdateVpnGateway \/ SetupRouting \/ OpenVpnFinished \/ Tun2SocksFinished
  <2>1. app.phase # "off"
    BY <1>3 DEF UpdateVpnGateway, SetupRouting, OpenVpnFinished, Tun2SocksFinished
  <2>2. app.c \in Configs
    BY <1>0, <2>1, AppFacts
  <2>3. Sound(armed(s, app.c)) /\ Listed(armed(s, app.c).fw) /\ Listed(disableKillSwitch(s).fw)
    BY <1>0, <2>2, ArmedMode, ListedKept
  <2>4. Listed(disableKillSwitch(armed(s, app.c)).fw)
    BY <2>3, ListedKept
  <2>5. QED BY <1>3, <2>3, <2>4
            DEF UpdateVpnGateway, SetupRouting, OpenVpnFinished, Tun2SocksFinished
<1>4. CASE Stop
  BY <1>0, <1>4, ListedKept DEF Stop, stopAgain
<1>5. /\ Listed(init(s).fw) /\ Listed(deactivate(s).fw)
      /\ \A b \in BOOLEAN : Listed(refresh(s, b).fw)
      /\ \A r \in SUBSET Nets : Listed(addAllowedRange(s, r).fw)
  BY <1>0, ListedKept
<1>6. CASE PrepareRequest \/ (\E b \in BOOLEAN : RefreshKillSwitch(b)) \/ ServiceStart \/ ClientCrash
  <2>1. {Gateway} \in SUBSET Nets
    BY DEF Nets
  <2>2. QED BY <1>5, <1>6, <2>1 DEF PrepareRequest, RefreshKillSwitch, ServiceStart, ClientCrash
<1>7. CASE ReadActivate
  <2>1. Head(inbox) \in Commands /\ Head(inbox).type = "activate"
    BY <1>0, <1>7 DEF ReadActivate
  <2>2. Head(inbox).c \in Configs
    BY <2>1 DEF Commands, Deactivate
  <2>3. PICK o \in activate(s, Head(inbox).c) : s' = o.s
    BY <1>7 DEF ReadActivate, Continue
  <2>4. s'.fw \in {s.fw, deactivate(s).fw}
    BY <1>0, <2>2, <2>3, OutcomeRules
  <2>5. QED BY <1>5, <2>4
<1>8. CASE Resume
  <2>1. PICK o \in resume(s, frame) : s' = o.s
    BY <1>8 DEF Resume, Continue
  <2>2. frame # NoFrame /\ frame.c \in Configs
    BY <1>0, <1>8 DEF Resume, Frames
  <2>3. s'.fw \in {s.fw, applyFirewallRules(s, frame.c).fw}
    BY <1>0, <2>1, <2>2, OutcomeRules
  <2>4. QED BY <1>0, <2>2, <2>3, ApplyFirewallRulesEffect
<1>9. CASE ReadDeactivate
  BY <1>5, <1>9 DEF ReadDeactivate
<1>10. CASE CheckHandshake \/ ProcessReaped \/ ProcessDies
  BY <1>0, <1>10, EndEffect DEF CheckHandshake, ProcessReaped, ProcessDies, SameKillSwitch
<1>11. CASE ServiceCrash \/ ServiceQuit \/ Reboot
  <2>1. s'.fw \in {s.fw, deactivate(s).fw, uninstall}
    BY <1>0, <1>11, EndFacts DEF ServiceCrash, ServiceQuit, ServiceEnds, Reboot
  <2>2. Listed(uninstall)
    BY DEF Listed, uninstall
  <2>3. QED BY <1>5, <2>1, <2>2
<1>12. QED BY <1>1, <1>2, <1>3, <1>4, <1>6, <1>7, <1>8, <1>9, <1>10, <1>11
           DEF Next, ClientStep, DaemonStep, FaultStep

\* Only sites are listed as blocked, in every state.
LEMMA ListedAlways == Spec => []Listed(s.fw)
<1>1. Init => Listed(s.fw)
  BY DEF Init, freshService, Listed, uninstall
<1>2. IInv /\ Listed(s.fw) /\ [Next]_vars => Listed(s.fw)'
  BY ListedStep DEF Listed
<1>3. QED BY <1>1, <1>2, Invariant, PTL DEF Spec

-----------------------------------------------------------------------------
(***************************************************************************)
(* ArmedTunnel: the rules that a tunnel finds, from the moment they are put*)
(* in place, as long as nobody touches the settings.                       *)
(***************************************************************************)
\* WireGuard's: from the peer's command on, with the option on.
WgArmed ==
  (/\ app.kind = "wg" /\ app.phase # "off" /\ app.c.ks
   /\ frame.at = "peer" \/ s.conn # NoConfig)
  => /\ s.fw.installed
     /\ app.c.split # 1 =>
          /\ On(s.fw, blockAll)
          /\ "gateway" \notin marks => On(s.fw, allowNets) /\ app.c.host \in s.fw.allowNets
     /\ app.c.split = 1 =>
          On(s.fw, blockNets) /\ Sites \subseteq s.fw.blockNets /\ ~On(s.fw, blockAll)

\* OpenVPN's: its server is remembered and allowed, and the option seals it.
OvArmed ==
  app.kind = "ovpn" =>
    /\ app.phase \in {"starting", "up"} =>
         /\ app.c.host \in s.ranges
         /\ On(s.fw, blockAll) => On(s.fw, allowNets) /\ app.c.host \in s.fw.allowNets
    /\ app.c.ks /\ app.phase \in {"up", "dropped"} =>
         s.fw.installed /\ (app.c.split # 1 => On(s.fw, blockAll))

\* Xray's: its mark is allowed while it is up.
XrArmed ==
  app.kind = "xray" /\ app.phase = "up" /\ app.c.ks =>
    /\ s.fw.installed /\ On(s.fw, allowMarkedXray)
    /\ app.c.split # 1 => On(s.fw, blockAll)

AllArmed    == WgArmed /\ OvArmed /\ XrArmed
ArmedTunnel == Clear /\ "toggle" \notin marks => AllArmed

\* Nothing is asked of an object that is off.
LEMMA OffArmed ==
  ASSUME app.phase = "off"
  PROVE  AllArmed
BY DEF AllArmed, WgArmed, OvArmed, XrArmed

\* The start of a tunnel: OpenVPN's server is allowed after the clean-up, not before.
LEMMA StartArmed ==
  ASSUME IInv, Session, StartTunnel, Clear'
  PROVE  AllArmed'
<1>1. PICK h \in Hosts, x \in Options :
        \/ StartWireguard([host |-> h, split |-> x.split, ks |-> x.ks])
        \/ StartOpenVpn([host |-> h, split |-> x.split, ks |-> x.ks])
        \/ StartXray([host |-> h, split |-> x.split, ks |-> x.ks])
  BY DEF StartTunnel
<1> DEFINE c == [host |-> h, split |-> x.split, ks |-> x.ks]
<1>2. c \in Configs /\ {c.host} \in SUBSET Nets
  BY BoundsAssumption DEF Configs, Nets, Addresses
<1>3. StartWireguard(c) \/ StartOpenVpn(c) \/ StartXray(c)
  BY <1>1
<1> HIDE DEF c
<1>4. Shape' /\ Waits(s', frame')
  BY StartSession
<1>5. CASE StartOpenVpn(c)
  <2> DEFINE y == disableKillSwitch(stopAgain)
             t == addAllowedRange(y, {c.host})
  <2>1. /\ app' = [kind |-> "ovpn", phase |-> "starting", c |-> c] /\ s' = t /\ up
    BY <1>5 DEF StartOpenVpn, New
  <2>2. app'.kind = "ovpn" /\ app'.phase = "starting" /\ app'.c = c
    BY <2>1
  <2>3. Sound(s) /\ Armed(s) /\ Sound(stopAgain) /\ Armed(stopAgain)
    BY <2>1, StopAgainFacts DEF IInv, Keeps
  <2>4. Sound(y) /\ Armed(y) /\ y.strict = stopAgain.strict /\ y \in ServiceStates
    BY <2>3, DisableKillSwitchFacts DEF Keeps, Sound
  <2>5. ~y.fw.installed => y.fw.on = {}
    <3>1. stopAgain \in ServiceStates
      BY <2>3 DEF Sound
    <3>2. ~y.fw.installed => y.fw = uninstall
      BY <2>4, <3>1, SoftEffect DEF Armed
    <3>3. QED BY <3>2, InstallFacts
  <2> HIDE DEF y
  <2>6. /\ t.ranges = y.ranges \cup {c.host}
        /\ y.fw.installed => On(t.fw, allowNets) /\ t.fw.allowNets = t.ranges
        /\ ~y.fw.installed => t.fw = y.fw
    BY <1>2, <2>4, AddAllowedRangeEffect
  <2> HIDE DEF t
  <2>7. On(t.fw, blockAll) => On(t.fw, allowNets) /\ c.host \in t.fw.allowNets
    BY <2>5, <2>6 DEF On
  <2>8. QED BY <2>1, <2>2, <2>6, <2>7 DEF AllArmed, WgArmed, OvArmed, XrArmed
<1>6. CASE StartWireguard(c)
  <2>1. app' = [kind |-> "wg", phase |-> "starting", c |-> c]
    BY <1>6 DEF StartWireguard, New
  <2>2. app'.kind = "wg" /\ app'.phase = "starting"
    BY <2>1
  <2>3. frame' = NoFrame /\ s'.conn = NoConfig
    <3>1. UNCHANGED frame /\ SameDaemon(s, s')
      BY ClientAlone DEF ClientStep
    <3>2. Activate(c) \in Commands
      BY <1>2 DEF Commands, Activate
    <3>3. <<Activate(c)>> \in Seq(Commands) /\ New("wg", c, <<Activate(c)>>)
      BY <1>6, <3>2 DEF StartWireguard
    <3>4. Quiet /\ DaemonIdle
      BY <3>3, NewClear
    <3>5. QED BY <3>1, <3>4 DEF Quiet, DaemonIdle, SameDaemon
  <2>4. QED BY <2>2, <2>3 DEF AllArmed, WgArmed, OvArmed, XrArmed, NoFrame
<1>7. CASE StartXray(c)
  <2>1. app' = [kind |-> "xray", phase |-> "starting", c |-> c]
    BY <1>7 DEF StartXray, New
  <2>2. app'.kind = "xray" /\ app'.phase = "starting"
    BY <2>1
  <2>3. QED BY <2>2 DEF AllArmed, WgArmed, OvArmed, XrArmed
<1>8. QED BY <1>3, <1>5, <1>6, <1>7

\* The steps of OpenVPN and Xray.
LEMMA TunnelArmed ==
  ASSUME IInv, AllArmed,
         UpdateVpnGateway \/ SetupRouting \/ OpenVpnFinished \/ Tun2SocksFinished
  PROVE  AllArmed'
<1>0. s \in ServiceStates /\ app.kind \in {"ovpn", "xray"} /\ app.phase # "off"
  BY DEF IInv, Sound, UpdateVpnGateway, SetupRouting, OpenVpnFinished, Tun2SocksFinished
<1>1. app.c \in Configs
  BY <1>0, LiveApp
<1>2. ASSUME NEW p, Phase(p)
      PROVE  app'.kind = app.kind /\ app'.c = app.c /\ app'.phase = p
  BY <1>0, <1>2, LiveApp DEF Phase
<1> DEFINE t == armed(s, app.c)
<1>3. /\ t.ranges = s.ranges
      /\ ~app.c.ks => t = s
      /\ app.c.ks =>
           /\ t.fw.installed /\ On(t.fw, allowMarkedXray)
           /\ app.c.split # 1 => On(t.fw, blockAll)
           /\ On(t.fw, blockAll) => On(t.fw, allowNets) /\ app.c.host \in t.fw.allowNets
  BY <1>0, <1>1, EnableKillSwitchEffect DEF armed
<1>4. CASE UpdateVpnGateway
  <2>1. /\ app.kind = "ovpn" /\ app.phase \in {"starting", "up"} /\ s' = t
        /\ app'.kind = app.kind /\ app'.c = app.c /\ app'.phase = "up"
    BY <1>2, <1>4 DEF UpdateVpnGateway
  <2> HIDE DEF t
  <2>2. QED BY <1>3, <2>1 DEF AllArmed, WgArmed, OvArmed, XrArmed
<1>5. CASE SetupRouting
  <2>1. /\ app.kind = "xray" /\ app'.kind = app.kind /\ app'.c = app.c
        /\ app'.phase = "failed" \/ (app'.phase = "up" /\ s' = t)
    BY <1>2, <1>5 DEF SetupRouting
  <2> HIDE DEF t
  <2>2. QED BY <1>3, <2>1 DEF AllArmed, WgArmed, OvArmed, XrArmed
<1>6. CASE OpenVpnFinished
  <2>1. /\ app.kind = "ovpn" /\ s' = s /\ app'.kind = app.kind /\ app'.c = app.c
        /\ \/ app.phase = "up" /\ app'.phase = "dropped"
           \/ app'.phase = "failed"
    BY <1>2, <1>6 DEF OpenVpnFinished
  <2>2. QED BY <2>1 DEF AllArmed, WgArmed, OvArmed, XrArmed
<1>7. CASE Tun2SocksFinished
  <2>1. app.kind = "xray" /\ app'.kind = app.kind /\ app'.phase \in {"dropped", "failed"}
    BY <1>2, <1>7 DEF Tun2SocksFinished
  <2>2. QED BY <2>1 DEF AllArmed, WgArmed, OvArmed, XrArmed
<1>8. QED BY <1>4, <1>5, <1>6, <1>7

\* The gateway's address is allowed beside the server's, or, for WireGuard, instead of it.
LEMMA GatewayArmed ==
  ASSUME IInv, AllArmed, PrepareRequest, Clear'
  PROVE  AllArmed'
<1>1. CASE app.phase = "off"
  BY <1>1, OffArmed DEF PrepareRequest, AllArmed, WgArmed, OvArmed, XrArmed
<1>2. CASE app.phase # "off"
  <2>1. s \in ServiceStates /\ {Gateway} \in SUBSET Nets /\ UNCHANGED <<app, frame>>
    BY DEF IInv, Sound, Nets, PrepareRequest
  <2>2. s' = addAllowedRange(s, {Gateway}) /\ "gateway" \in marks' /\ SameDaemon(s, s')
    <3>1. marks' = marks \cup {"gateway"}
      BY <1>2, MarkedClear DEF PrepareRequest, Clear
    <3>2. QED BY <3>1, ClientAlone DEF PrepareRequest, ClientStep
  <2>3. /\ s'.ranges = s.ranges \cup {Gateway}
        /\ s'.fw.installed = s.fw.installed /\ s'.fw.blockNets = s.fw.blockNets
        /\ \A a : a # allowNets => (On(s'.fw, a) <=> On(s.fw, a))
        /\ s.fw.installed => On(s'.fw, allowNets) /\ s'.fw.allowNets = s'.ranges
        /\ ~s.fw.installed => s'.fw = s.fw
    BY <2>1, <2>2, AddAllowedRangeEffect
  <2>4. /\ On(s'.fw, blockAll) <=> On(s.fw, blockAll)
        /\ On(s'.fw, blockNets) <=> On(s.fw, blockNets)
        /\ On(s'.fw, allowMarkedXray) <=> On(s.fw, allowMarkedXray)
    BY <2>3, Numbers
  <2>5. WgArmed'
    BY <2>1, <2>2, <2>3, <2>4 DEF AllArmed, WgArmed, SameDaemon
  <2>6. OvArmed'
    BY <2>1, <2>3, <2>4 DEF AllArmed, OvArmed
  <2>7. XrArmed'
    BY <2>1, <2>3, <2>4 DEF AllArmed, XrArmed
  <2>8. QED BY <2>5, <2>6, <2>7 DEF AllArmed
<1>3. QED BY <1>1, <1>2

\* The daemon's steps, and the death of its process, while WireGuard is not the client's tunnel.
LEMMA OtherArmed ==
  ASSUME IInv, Session, Clear, AllArmed, app.kind # "wg", DaemonStep \/ ProcessDies
  PROVE  AllArmed'
<1>0. s \in ServiceStates /\ Shape
  BY DEF IInv, Sound, Session
<1>1. Resting
  BY <1>0 DEF Shape, Asked, Recalled, Working, Leaving, Held
<1>2. ReadDeactivate
  <2>1. ~ReadActivate
    BY <1>0, ReadsActivate DEF ReadActivate
  <2>2. ~Resume /\ ~CheckHandshake /\ ~ProcessReaped /\ ~ProcessDies
    BY <1>1 DEF Resting, DaemonIdle, Resume, CheckHandshake, handshakeDue, ProcessReaped,
                ProcessDies
  <2>3. QED BY <2>1, <2>2 DEF DaemonStep
<1>3. SameKillSwitch(s, s') /\ UNCHANGED <<app, marks>>
  BY <1>0, <1>1, <1>2, DeactivateEffect DEF ReadDeactivate, Resting, DaemonIdle
<1>4. QED BY <1>3 DEF SameKillSwitch, AllArmed, WgArmed, OvArmed, XrArmed

\* The same while it is.
LEMMA WireguardArmed ==
  ASSUME IInv, Session, Clear, WgArmed, app.kind = "wg", DaemonStep \/ ProcessDies,
         "gateway" \notin marks' => "gateway" \notin marks
  PROVE  AllArmed'
<1>0. /\ Sound(s) /\ s \in ServiceStates /\ Shape /\ Exact(s) /\ Waits(s, frame)
      /\ frame \in Frames
  BY DEF IInv, Sound, Session, RestOK
<1>1. ASSUME app'.kind = "wg", frame'.at # "peer", s'.conn = NoConfig
      PROVE  AllArmed'
  BY <1>1 DEF AllArmed, WgArmed, OvArmed, XrArmed
<1>2. ASSUME SameKillSwitch(s, s'), app'.kind = "wg", app'.c = app.c,
             app'.phase # "off" => app.phase # "off",
             frame'.at = "peer" \/ s'.conn # NoConfig => frame.at = "peer" \/ s.conn # NoConfig
      PROVE  AllArmed'
  BY <1>2 DEF SameKillSwitch, AllArmed, WgArmed, OvArmed, XrArmed
<1>3. CASE ReadActivate
  <2>1. DaemonIdle /\ Head(inbox).c \in Configs
    <3>1. /\ DaemonIdle
          /\ \/ app.phase = "starting" /\ Head(inbox) = Activate(app.c) /\ Tail(inbox) = <<>>
             \/ app.phase = "off" /\ Head(inbox).c \in Configs /\ Tail(inbox) = <<Deactivate>>
      BY <1>0, <1>3, ReadsActivate DEF ReadActivate
    <3>2. QED BY <3>1, AppFacts DEF IInv, Activate
  <2>2. PICK o \in activate(s, Head(inbox).c) : Continue(o)
    BY <1>3 DEF ReadActivate
  <2>3. Fresh(o, Head(inbox).c) /\ o.at \in {"name", "failed"}
    BY <1>0, <2>1, <2>2, ActivateFresh, IdleAgree
  <2>4. frame'.at # "peer" /\ s'.conn = NoConfig /\ app'.kind = "wg"
    BY <2>2, <2>3, ContinueApp DEF Continue, Fresh, Waits, NoFrame
  <2>5. QED BY <1>1, <2>4
<1>4. CASE ReadDeactivate
  <2>1. frame'.at # "peer" /\ s'.conn = NoConfig /\ app' = app
    BY <1>0, <1>4, DeactivateEffect DEF ReadDeactivate, NoFrame
  <2>2. QED BY <1>1, <2>1
<1>5. CASE Resume
  <2>1. frame # NoFrame /\ frame.at \in {"name", "setup", "peer"} /\ frame.c \in Configs
    BY <1>0, <1>5 DEF Resume, Frames, Waits
  <2>2. Working \/ Leaving
    BY <1>0, <2>1 DEF Shape, Resting, Asked, Recalled, Held
  <2>3. app.phase # "off" => app.c = frame.c
    BY <2>2 DEF Working, Leaving
  <2>4. PICK o \in resume(s, frame) : Continue(o)
    BY <1>5 DEF Resume
  <2>5. s' = o.s /\ app'.kind = "wg" /\ app'.c = app.c /\ (app'.phase # "off" <=> app.phase # "off")
    BY <2>4, ContinueApp DEF Continue
  <2>6. CASE frame.at = "name"
    <3>1. Fresh(o, frame.c) /\ o.at \in {"setup", "failed"}
      BY <1>0, <2>4, <2>6, NameFresh DEF resume
    <3>2. frame'.at # "peer" /\ s'.conn = NoConfig
      BY <2>4, <3>1 DEF Continue, Fresh, Waits, NoFrame
    <3>3. QED BY <1>1, <2>5, <3>2
  <2>7. CASE frame.at = "setup"
    <3> DEFINE y == applyFirewallRules(s, frame.c)
    <3>1. /\ Fresh(o, frame.c) /\ o.at \in {"peer", "failed"}
          /\ \/ o.at = "peer" => ~frame.c.ks
             \/ SameKillSwitch(y, s')
      BY <1>0, <2>1, <2>4, <2>5, <2>7, SetupFresh DEF resume
    <3>2. /\ y.fw.installed
          /\ frame.c.split # 1 =>
               On(y.fw, blockAll) /\ On(y.fw, allowNets) /\ frame.c.host \in y.fw.allowNets
          /\ frame.c.split = 1 =>
               On(y.fw, blockNets) /\ Sites \subseteq y.fw.blockNets /\ ~On(y.fw, blockAll)
      BY <1>0, <2>1, ApplyFirewallRulesEffect
    <3> HIDE DEF y
    <3>3. CASE o.at = "failed"
      <4>1. frame'.at # "peer" /\ s'.conn = NoConfig
        BY <2>4, <3>1, <3>3 DEF Continue, Fresh, NoFrame
      <4>2. QED BY <1>1, <2>5, <4>1
    <3>4. CASE o.at = "peer" /\ ~frame.c.ks
      BY <2>3, <2>5, <3>4 DEF AllArmed, WgArmed, OvArmed, XrArmed
    <3>5. CASE SameKillSwitch(y, s')
      <4>1. s'.fw = y.fw
        BY <3>5 DEF SameKillSwitch
      <4>2. QED BY <2>3, <2>5, <3>2, <4>1 DEF AllArmed, WgArmed, OvArmed, XrArmed
    <3>6. QED BY <3>1, <3>3, <3>4, <3>5
  <2>8. CASE frame.at = "peer"
    <3>1. SameKillSwitch(s, s')
      BY <1>0, <2>4, <2>5, <2>8, PeerFresh DEF resume
    <3>2. QED BY <1>2, <2>5, <2>8, <3>1
  <2>9. QED BY <2>1, <2>6, <2>7, <2>8
<1>6. CASE CheckHandshake \/ ProcessReaped \/ ProcessDies
  <2>1. SameKillSwitch(s, s') /\ s'.conn = s.conn /\ UNCHANGED frame
    BY <1>0, <1>6, EndEffect DEF CheckHandshake, ProcessReaped, ProcessDies
  <2>2. \/ app' = app
        \/ app.phase # "off" /\ (Phase("up") \/ Phase("dropped"))
    BY <1>6 DEF CheckHandshake, ProcessReaped, ProcessDies, Dropped, Phase
  <2>3. app'.kind = "wg" /\ app'.c = app.c /\ (app'.phase # "off" => app.phase # "off")
    BY <2>2, LiveApp DEF Phase
  <2>4. QED BY <1>2, <2>1, <2>3
<1>7. QED BY <1>3, <1>4, <1>5, <1>6 DEF DaemonStep

\* Every step leaves the tunnel its rules.
LEMMA ArmedStep ==
  ASSUME IInv, Session, ArmedTunnel, [Next]_vars
  PROVE  ArmedTunnel'
<1>1. CASE UNCHANGED vars
  BY <1>1 DEF vars, ArmedTunnel, Clear, AllArmed, WgArmed, OvArmed, XrArmed
<1>2. CASE Next
  <2> SUFFICES ASSUME Clear', "toggle" \notin marks' PROVE AllArmed'
    BY DEF ArmedTunnel
  <2>0. Clear \/ Reboot \/ (StartTunnel /\ Clean /\ marks' = {})
    BY <1>2, ClearBefore
  <2>1. CASE Reboot
    <3>1. app'.kind = "none" /\ app'.phase = "off"
      BY <2>1 DEF Reboot, NoApp, Off
    <3>2. QED BY <3>1 DEF AllArmed, WgArmed, OvArmed, XrArmed
  <2>2. CASE StartTunnel
    BY <2>2, StartArmed
  <2>3. CASE Clear /\ ServiceStart
    <3>1. app' = NoApp
      BY <2>3 DEF ServiceStart, Session, DownFresh
    <3>2. app'.kind = "none" /\ app'.phase = "off"
      BY <3>1 DEF NoApp, Off
    <3>3. QED BY <3>2 DEF AllArmed, WgArmed, OvArmed, XrArmed
  <2>4. CASE \E b \in BOOLEAN : RefreshKillSwitch(b)
    <3>1. app.phase = "off"
      <4>1. app.phase # "off" => marks' = marks \cup {"toggle"}
        BY <2>4, MarkedClear DEF RefreshKillSwitch, Clear
      <4>2. QED BY <4>1
    <3>2. app' = app
      BY <2>4 DEF RefreshKillSwitch
    <3>3. QED BY <3>1, <3>2 DEF AllArmed, WgArmed, OvArmed, XrArmed
  <2>5. CASE Stop
    <3>1. app'.phase = "off"
      BY <2>5 DEF Stop, Off
    <3>2. QED BY <3>1 DEF AllArmed, WgArmed, OvArmed, XrArmed
  <2>6. CASE Clear /\ (UpdateVpnGateway \/ SetupRouting \/ OpenVpnFinished \/ Tun2SocksFinished)
    <3>1. AllArmed
      BY <2>6 DEF ArmedTunnel, UpdateVpnGateway, SetupRouting, OpenVpnFinished,
                  Tun2SocksFinished
    <3>2. QED BY <2>6, <3>1, TunnelArmed
  <2>7. CASE Clear /\ PrepareRequest
    <3>1. AllArmed
      BY <2>7, MarkedClear DEF ArmedTunnel, PrepareRequest, Clear
    <3>2. QED BY <2>7, <3>1, GatewayArmed
  <2>8. CASE Clear /\ (DaemonStep \/ ProcessDies)
    <3>1. marks' = marks \/ marks' = marks \cup {"died"}
      BY <2>8, MarkedClear DEF DaemonStep, ReadActivate, ReadDeactivate, Resume,
         CheckHandshake, ProcessReaped, ProcessDies, Clear
    <3>2. AllArmed /\ ("gateway" \notin marks' => "gateway" \notin marks)
      BY <2>8, <3>1 DEF ArmedTunnel
    <3>3. QED BY <2>8, <3>2, OtherArmed, WireguardArmed DEF AllArmed
  <2>9. QED BY <1>2, <2>0, <2>1, <2>2, <2>3, <2>4, <2>5, <2>6, <2>7, <2>8, NoCrash
            DEF Next, ClientStep, FaultStep
<1>3. QED BY <1>1, <1>2

\* A tunnel has its rules in every state.
LEMMA ArmedAlways == Spec => []ArmedTunnel
<1>1. Init => ArmedTunnel
  BY OffArmed DEF Init, NoApp, Off, ArmedTunnel
<1>2. IInv /\ Session /\ ArmedTunnel /\ [Next]_vars => ArmedTunnel'
  BY ArmedStep
<1>3. QED BY <1>1, <1>2, Invariant, SessionAlways, PTL DEF Spec

-----------------------------------------------------------------------------
\* A site that is listed as blocked is rejected before the allowed networks are looked at.
LEMMA SiteRejected ==
  ASSUME NEW fw \in Firewalls, fw.installed, On(fw, blockNets), NEW x \in fw.blockNets
  PROVE  Rejected(fw, Outside(4, x, "no"))
<1> DEFINE p == Outside(4, x, "no")
<1>1. x # "lan" /\ x # "dhcp"
  BY NamesAssumption DEF Firewalls, Addresses
<1>2. \A a \in Accepting : a \in {1, 2, 4, 5, 7, 8, 10}
  BY Numbers DEF Accepting, Anchors, Rejecting
<1>3. Hits(fw, p, blockNets) /\ blockNets \in Rejecting
  BY DEF Hits, Matches, Outside, Packet, On, Rejecting
<1>4. \A a \in Accepting : Hits(fw, p, a) => blockNets < a
  BY <1>1, <1>2, Numbers DEF Hits, Matches, Outside, Packet
<1>5. QED BY <1>3, <1>4 DEF Rejected

\* Only blockNets and blockAll can reject a packet to a server, and the allowed networks or
\* Xray's mark come before blockAll.
LEMMA ServerAccepted ==
  ASSUME NEW fw \in Firewalls, Listed(fw), NEW h \in Hosts, NEW m \in BOOLEAN,
         On(fw, blockAll) => \/ On(fw, allowNets) /\ h \in fw.allowNets
                             \/ On(fw, allowMarkedXray) /\ m
  PROVE  ~Rejected(fw, Packet("eth", 4, h, "no", m))
<1> DEFINE p == Packet("eth", 4, h, "no", m)
<1>1. h \notin fw.blockNets
  BY SitesAssumption DEF Listed
<1>2. {allowNets, allowMarkedXray} \subseteq Accepting
  BY Numbers DEF Accepting, Anchors, Rejecting
<1>3. ASSUME NEW r \in Rejecting, Hits(fw, p, r),
             \A a \in Accepting : Hits(fw, p, a) => r < a
      PROVE  FALSE
  <2>1. r # blockDNS
    BY <1>3, Numbers DEF Hits, Matches, Packet
  <2>2. r # blockNets
    BY <1>1, <1>3, Numbers DEF Hits, Matches, Packet
  <2>3. r # blockIPv6
    BY <1>3, MoreChains DEF Hits, Packet, Firewalls
  <2>4. r = blockAll
    BY <2>1, <2>2, <2>3 DEF Rejecting
  <2>5. On(fw, blockAll)
    BY <1>3, <2>4 DEF Hits, Packet, On
  <2>6. CASE On(fw, allowNets) /\ h \in fw.allowNets
    <3>1. Hits(fw, p, allowNets)
      BY <2>6 DEF Hits, Matches, Packet, On
    <3>2. QED BY <1>2, <1>3, <2>4, <3>1, Numbers
  <2>7. CASE On(fw, allowMarkedXray) /\ m
    <3>1. Hits(fw, p, allowMarkedXray)
      BY <2>7 DEF Hits, Matches, Packet, On
    <3>2. QED BY <1>2, <1>3, <2>4, <3>1, Numbers
  <2>8. QED BY <2>5, <2>6, <2>7
<1>4. QED BY <1>3 DEF Rejected

\* The rules that are installed in a tunnel's name seal it.
LEMMA InstalledSeals ==
  ASSUME IInv, s.fw.installed
  PROVE  NoLeaks(s.fw) /\ (On(s.fw, blockAll) => Rejected(s.fw, Ordinary))
<1>1. s.fw \in Firewalls /\ Sealed(s.fw)
  BY StateFacts DEF IInv, Sound
<1>2. NoLeaks(s.fw) /\ (Rejected(s.fw, Ordinary) \/ RulesOf(s.fw) = "sites")
  BY <1>1, SealedRejects
<1>3. On(s.fw, blockAll) => RulesOf(s.fw) = "full"
  BY DEF On, RulesOf
<1>4. QED BY <1>2, <1>3

\* A WireGuard tunnel that is up, or fell, is the daemon's connection.
LEMMA UpIsHeld ==
  ASSUME IInv, Session, Clear, app.kind = "wg", app.phase \in {"up", "dropped"}
  PROVE  s.conn = app.c /\ s.conn # NoConfig
<1>1. Held
  BY DEF Session, Shape, Resting, Asked, Recalled, Working, Leaving
<1>2. app.c \in Configs
  BY AppFacts DEF IInv
<1>3. QED BY <1>1, <1>2, ConfigFacts DEF Held

(***************************************************************************)
(* A tunnel whose kill switch is on is sealed from the moment it is up     *)
(* until it is let go of, in strict and in soft mode, unless the settings  *)
(* were touched, it was started into another tunnel's clean-up, or a crash *)
(* came before (enableKillSwitch, applyFirewallRules; the order of the     *)
(* protocols' stop and start calls).  What sealed means, TunnelSealed says:*)
(* nothing of the sites of mode 1 under OpenVPN and Xray, and nothing of   *)
(* IPv6 within the local network.                                          *)
(***************************************************************************)
THEOREM TunnelIsSealed == Spec => []TunnelSealed
<1>1. IInv /\ Session /\ ArmedTunnel => TunnelSealed
  <2> SUFFICES ASSUME IInv, Session, ArmedTunnel,
                      app.c.ks, app.phase = "up" \/ (app.phase = "dropped" /\ app.kind # "xray"),
                      marks \cap (Untold \cup {"toggle"}) = {}
               PROVE  /\ NoLeaks(s.fw)
                      /\ IF app.c.split # 1 THEN Rejected(s.fw, Ordinary)
                         ELSE app.kind = "wg" => \A x \in Sites : Rejected(s.fw, Outside(4, x, "no"))
    BY DEF TunnelSealed
  <2>1. Clear /\ AllArmed
    BY DEF ArmedTunnel, Clear
  <2>2. app.kind \in Kinds
    BY AppFacts DEF IInv
  <2>3. app.kind = "wg" => s.conn # NoConfig
    BY <2>1, UpIsHeld
  <2>4. s.fw.installed /\ (app.c.split # 1 => On(s.fw, blockAll))
    BY <2>1, <2>2, <2>3 DEF AllArmed, WgArmed, OvArmed, XrArmed, Kinds
  <2>5. NoLeaks(s.fw) /\ (app.c.split # 1 => Rejected(s.fw, Ordinary))
    BY <2>4, InstalledSeals
  <2>6. ASSUME app.c.split = 1, app.kind = "wg", NEW x \in Sites
        PROVE  Rejected(s.fw, Outside(4, x, "no"))
    <3>1. On(s.fw, blockNets) /\ x \in s.fw.blockNets
      BY <2>1, <2>3, <2>6 DEF AllArmed, WgArmed
    <3>2. s.fw \in Firewalls
      BY StateFacts DEF IInv, Sound
    <3>3. QED BY <2>4, <3>1, <3>2, SiteRejected
  <2>7. QED BY <2>5, <2>6
<1>2. QED BY <1>1, Invariant, SessionAlways, ArmedAlways, PTL

(***************************************************************************)
(* The firewall never cuts a tunnel off from its server, whatever tunnels, *)
(* modes and gateway requests came before, under the conditions that       *)
(* ServerReachable names (addAllowedRange before OpenVPN's start, the      *)
(* allowed networks of applyFirewallRules, Xray's mark).                   *)
(***************************************************************************)
THEOREM ServerIsReachable == Spec => []ServerReachable
<1>1. IInv /\ Session /\ SoftOpen /\ ArmedTunnel /\ Listed(s.fw) => ServerReachable
  <2> SUFFICES ASSUME IInv, Session, SoftOpen, ArmedTunnel, Listed(s.fw),
                      app.phase = "up" \/ (app.phase = "starting" /\ app.kind = "ovpn"),
                      marks \cap (Untold \cup {"toggle", "died"}) = {},
                      app.kind = "wg" => "gateway" \notin marks,
                      app.c.ks \/ ~s.strict
               PROVE  ~Rejected(s.fw, ToServer)
    BY DEF ServerReachable
  <2>1. Clear /\ AllArmed /\ "died" \notin marks
    BY DEF ArmedTunnel, Clear
  <2>2. app.kind \in Kinds /\ app.c \in Configs /\ app.phase # "off"
    BY AppFacts DEF IInv
  <2>3. app.c.host \in Hosts /\ app.c.ks \in BOOLEAN /\ s.fw \in Firewalls
    BY <2>2, ConfigFacts, StateFacts DEF IInv, Sound
  <2>4. CASE app.kind # "ovpn" /\ ~app.c.ks
    <3>1. s.fw = uninstall
      BY <2>1, <2>2, <2>4 DEF SoftOpen, RulesWanted
    <3>2. QED BY <3>1, InstallFacts DEF Rejected
  <2>5. CASE app.kind = "ovpn" \/ app.c.ks
    <3>1. app.kind = "wg" => s.conn # NoConfig
      BY <2>1, UpIsHeld
    <3>2. On(s.fw, blockAll) => \/ On(s.fw, allowNets) /\ app.c.host \in s.fw.allowNets
                                \/ On(s.fw, allowMarkedXray) /\ app.kind = "xray"
      BY <2>1, <2>2, <2>5, <3>1 DEF AllArmed, WgArmed, OvArmed, XrArmed, Kinds
    <3> DEFINE m == app.kind = "xray"
    <3>3. m \in BOOLEAN
      OBVIOUS
    <3>4. ~Rejected(s.fw, Packet("eth", 4, app.c.host, "no", m))
      <4> HIDE DEF m
      <4>1. On(s.fw, blockAll) => \/ On(s.fw, allowNets) /\ app.c.host \in s.fw.allowNets
                                  \/ On(s.fw, allowMarkedXray) /\ m
        BY <3>2 DEF m
      <4>2. QED BY <2>3, <3>3, <4>1, ServerAccepted
    <3>5. QED BY <3>4 DEF ToServer
  <2>6. QED BY <2>3, <2>4, <2>5
<1>2. QED BY <1>1, Invariant, SessionAlways, OpenAlways, ArmedAlways, ListedAlways, PTL

=============================================================================
