--------------------------- MODULE Service_proofs ---------------------------
(***************************************************************************)
(* Proofs about the privileged service, for any servers, sites, modes and  *)
(* number of faults: its types, that strict mode is sealed in every state, *)
(* and that its firewall implements TrafficPolicy.                         *)
(*                                                                         *)
(* None of the three is inductive.  What carries them is that a firewall   *)
(* that is installed always rejects something (Sealed) and that a running  *)
(* service in strict mode has it installed; every function of KillSwitch   *)
(* and Daemon keeps both (Keeps).                                          *)
(***************************************************************************)
EXTENDS Service, TLAPS

Nets == Addresses \cup {Gateway}

Firewalls == [installed : BOOLEAN, on : SUBSET Chains, allowNets : SUBSET Nets,
              blockNets : SUBSET Addresses]

\* Whenever the rules are there, IPv6 is blocked, and all of IPv4 or its queries are;
\* an exception for the local network comes with the block of queries.
Sealed(fw) ==
  fw.installed => /\ <<blockIPv6, 6>> \in fw.on
                  /\ <<blockAll, 4>> \in fw.on \/ <<blockDNS, 4>> \in fw.on
                  /\ <<allowLAN, 4>> \in fw.on => <<blockDNS, 4>> \in fw.on

-----------------------------------------------------------------------------
(***************************************************************************)
(* The firewall.                                                           *)
(***************************************************************************)
\* The chains of the proofs exist (install).
LEMMA ChainFacts ==
  {<<blockIPv6, 6>>, <<blockAll, 4>>, <<blockDNS, 4>>, <<allowLAN, 4>>} \subseteq Chains
<1>1. <<blockIPv6, 6>> \in Chains
  BY DEF Chains, Anchors, Both, IPv4, IPv6, blockIPv6, allowDNS, blockNets, allowNets
<1>2. <<blockAll, 4>> \in Chains
  BY DEF Chains, Anchors, Both, IPv4, IPv6, blockIPv6, blockAll
<1>3. <<blockDNS, 4>> \in Chains
  BY DEF Chains, Anchors, Both, IPv4, IPv6, blockIPv6, blockDNS
<1>4. <<allowLAN, 4>> \in Chains
  BY DEF Chains, Anchors, Both, IPv4, IPv6, blockIPv6, allowLAN
<1>5. QED  BY <1>1, <1>2, <1>3, <1>4

\* No rules, and only the skeleton of the rules (uninstall, install).
LEMMA InstallFacts ==
  /\ uninstall \in Firewalls /\ ~uninstall.installed /\ uninstall.on = {}
  /\ install \in Firewalls /\ install.installed /\ install.on = {}
BY DEF uninstall, install, Firewalls

\* What switching anchors on does (setAnchorEnabled).
LEMMA EnableFacts ==
  ASSUME NEW fw \in Firewalls, NEW ip, NEW A
  PROVE  LET t == enableAnchors(fw, ip, A)
         IN  /\ t \in Firewalls /\ t.installed = fw.installed
             /\ t.allowNets = fw.allowNets /\ t.blockNets = fw.blockNets
             /\ \A a, v : <<a, v>> \in t.on <=>
                   <<a, v>> \in fw.on \/ (fw.installed /\ a \in A /\ v \in ip /\ <<a, v>> \in Chains)
BY DEF enableAnchors, Firewalls

\* What switching anchors off does (setAnchorEnabled).
LEMMA DisableFacts ==
  ASSUME NEW fw \in Firewalls, NEW ip, NEW A
  PROVE  LET t == disableAnchors(fw, ip, A)
         IN  /\ t \in Firewalls /\ t.installed = fw.installed
             /\ t.allowNets = fw.allowNets /\ t.blockNets = fw.blockNets
             /\ \A a, v : <<a, v>> \in t.on <=> <<a, v>> \in fw.on /\ ~(a \in A /\ v \in ip)
BY DEF disableAnchors, Firewalls

\* Replacing the listed networks leaves the anchors alone (updateAllowNets, updateBlockNets).
LEMMA UpdateFacts ==
  ASSUME NEW fw \in Firewalls, NEW nets
  PROVE  /\ nets \in SUBSET Nets =>
              LET t == updateAllowNets(fw, nets)
              IN  t \in Firewalls /\ t.installed = fw.installed /\ t.on = fw.on
         /\ nets \in SUBSET Addresses =>
              LET t == updateBlockNets(fw, nets)
              IN  t \in Firewalls /\ t.installed = fw.installed /\ t.on = fw.on
BY DEF updateAllowNets, updateBlockNets, Firewalls

-----------------------------------------------------------------------------
(***************************************************************************)
(* The functions of the kill switch and of applyFirewallRules, on the      *)
(* firewall alone.                                                         *)
(***************************************************************************)
\* The numbers of the anchors (only their order and difference matter).
LEMMA Numbers ==
  /\ allowLoopback = 1 /\ allowDNS = 2 /\ blockDNS = 3 /\ allowLAN = 4 /\ allowDHCP = 5
  /\ blockIPv6 = 6 /\ allowVPN = 7 /\ allowMarkedXray = 8 /\ blockNets = 9 /\ allowNets = 10
  /\ blockAll = 11 /\ IPv4 = {4} /\ IPv6 = {6} /\ Both = {4, 6}
BY DEF allowLoopback, allowDNS, blockDNS, allowLAN, allowDHCP, blockIPv6, allowVPN,
       allowMarkedXray, blockNets, allowNets, blockAll, IPv4, IPv6, Both

\* Closing for strict mode: an installed firewall ends with everything blocked
\* (disableKillSwitch).
LEMMA CloseRulesFacts ==
  ASSUME NEW fw \in Firewalls
  PROVE  /\ CloseRules(fw) \in Firewalls
         /\ CloseRules(fw).installed = fw.installed
         /\ fw.installed => Sealed(CloseRules(fw)) /\ <<blockAll, 4>> \in CloseRules(fw).on
<1> DEFINE f1 == enableAnchors(fw, Both, {allowLoopback, blockAll})
           f2 == enableAnchors(f1, IPv6, {blockIPv6})
           f3 == disableAnchors(f2, Both, {allowMarkedXray, allowDHCP, allowLAN})
           f4 == disableAnchors(f3, IPv4, {allowNets, blockNets, allowVPN, blockDNS, allowDNS})
<1>1. /\ f1 \in Firewalls /\ f1.installed = fw.installed
      /\ fw.installed => <<blockAll, 4>> \in f1.on
  BY EnableFacts, ChainFacts, Numbers
<1>2. /\ f2 \in Firewalls /\ f2.installed = fw.installed
      /\ fw.installed => <<blockAll, 4>> \in f2.on /\ <<blockIPv6, 6>> \in f2.on
  <2> HIDE DEF f1
  <2> QED BY <1>1, EnableFacts, ChainFacts, Numbers
<1>3. /\ f3 \in Firewalls /\ f3.installed = fw.installed
      /\ fw.installed => <<blockAll, 4>> \in f3.on /\ <<blockIPv6, 6>> \in f3.on
      /\ <<allowLAN, 4>> \notin f3.on
  <2> HIDE DEF f2
  <2> QED BY <1>2, DisableFacts, Numbers
<1>4. /\ f4 \in Firewalls /\ f4.installed = fw.installed
      /\ fw.installed => <<blockAll, 4>> \in f4.on /\ <<blockIPv6, 6>> \in f4.on
      /\ <<allowLAN, 4>> \notin f4.on
  <2> HIDE DEF f3
  <2> QED BY <1>3, DisableFacts, Numbers
<1>5. CloseRules(fw) = f4
  BY DEF CloseRules
<1> HIDE DEF f4
<1>6. QED BY <1>4, <1>5 DEF Sealed

\* What the tunnels switch on (enableKillSwitch, applyFirewallRules) seals an installed
\* firewall and leaves blockAll alone.
LEMMA TunnelRulesFacts ==
  ASSUME NEW fw \in Firewalls
  PROVE  /\ TunnelRules(fw) \in Firewalls
         /\ TunnelRules(fw).installed = fw.installed
         /\ fw.installed => Sealed(TunnelRules(fw))
<1> DEFINE f1 == enableAnchors(fw, Both, {allowLoopback, allowDHCP, allowLAN})
           f2 == enableAnchors(f1, IPv4, {allowVPN, blockDNS, allowDNS})
           f3 == enableAnchors(f2, IPv6, {blockIPv6})
<1>1. f1 \in Firewalls /\ f1.installed = fw.installed
  BY EnableFacts
<1>2. /\ f2 \in Firewalls /\ f2.installed = fw.installed
      /\ fw.installed => <<blockDNS, 4>> \in f2.on
  <2> HIDE DEF f1
  <2> QED BY <1>1, EnableFacts, ChainFacts, Numbers
<1>3. /\ f3 \in Firewalls /\ f3.installed = fw.installed
      /\ fw.installed => <<blockDNS, 4>> \in f3.on /\ <<blockIPv6, 6>> \in f3.on
  <2> HIDE DEF f2
  <2> QED BY <1>2, EnableFacts, ChainFacts, Numbers
<1>4. TunnelRules(fw) = f3
  BY DEF TunnelRules
<1> HIDE DEF f3
<1>5. QED BY <1>3, <1>4 DEF Sealed

-----------------------------------------------------------------------------
(***************************************************************************)
(* The functions of the kill switch, on the service's state.               *)
(***************************************************************************)
Sound(x) == x \in ServiceStates /\ Sealed(x.fw)
Armed(x) == x.strict => x.fw.installed

Keeps(x, t) == Sound(t) /\ t.strict = x.strict /\ (Armed(x) => Armed(t))

\* Keeping the invariant composes.
LEMMA KeepsTwice ==
  ASSUME NEW x, NEW y, NEW z, Keeps(x, y), Keeps(y, z)
  PROVE  Keeps(x, z)
BY DEF Keeps

\* The parts of the service's state that the kill switch works on.
LEMMA StateFacts ==
  ASSUME NEW x \in ServiceStates
  PROVE  x.fw \in Firewalls /\ x.strict \in BOOLEAN /\ x.ranges \in SUBSET Nets
BY DEF ServiceStates, Firewalls, Nets

\* A new firewall in the service's state.
LEMMA SetFw ==
  ASSUME NEW x \in ServiceStates, NEW fw \in Firewalls,
         NEW t, t = [x EXCEPT !.fw = fw]
  PROVE  t \in ServiceStates /\ t.fw = fw /\ t.strict = x.strict
BY DEF ServiceStates, Firewalls, Nets

\* KillSwitch::disableKillSwitch keeps strict mode closed and opens soft mode.
LEMMA DisableKillSwitchFacts ==
  ASSUME NEW x, Sound(x)
  PROVE  /\ Keeps(x, disableKillSwitch(x))
         /\ ~x.strict => RulesOf(disableKillSwitch(x).fw) = "none"
         /\ x.strict /\ x.fw.installed => RulesOf(disableKillSwitch(x).fw) = "full"
<1> DEFINE fw == IF x.strict THEN CloseRules(x.fw) ELSE uninstall
<1>1. x \in ServiceStates /\ x.fw \in Firewalls /\ x.strict \in BOOLEAN
  BY StateFacts DEF Sound
<1>2. fw \in Firewalls
  BY <1>1, CloseRulesFacts, InstallFacts
<1>3. Sealed(fw)
  BY <1>1, CloseRulesFacts, InstallFacts DEF Sealed
<1>4. /\ ~x.strict => RulesOf(fw) = "none"
      /\ x.strict /\ x.fw.installed => RulesOf(fw) = "full" /\ fw.installed
  BY <1>1, CloseRulesFacts, InstallFacts DEF RulesOf
<1>5. /\ disableKillSwitch(x) \in ServiceStates
      /\ disableKillSwitch(x).fw = fw /\ disableKillSwitch(x).strict = x.strict
  <2>1. disableKillSwitch(x) = [x EXCEPT !.fw = fw, !.ranges = {}]
    BY <1>1 DEF disableKillSwitch, ServiceStates
  <2> HIDE DEF fw
  <2>2. QED BY <1>1, <1>2, <2>1 DEF ServiceStates, Firewalls, Nets
<1> HIDE DEF fw
<1>6. QED BY <1>3, <1>4, <1>5 DEF Keeps, Sound, Armed

\* KillSwitch::disableAllTraffic blocks, whatever the rules were.
LEMMA DisableAllTrafficFacts ==
  ASSUME NEW x, Sound(x)
  PROVE  /\ Sound(disableAllTraffic(x))
         /\ disableAllTraffic(x).strict = x.strict
         /\ disableAllTraffic(x).fw.installed
         /\ RulesOf(disableAllTraffic(x).fw) = "full"
<1> DEFINE f0 == IF x.fw.installed THEN x.fw ELSE install
           f1 == enableAnchors(f0, Both, {blockAll, allowLoopback})
           f2 == disableAnchors(f1, Both, {allowMarkedXray})
           f3 == enableAnchors(f2, IPv6, {blockIPv6})
<1>1. x \in ServiceStates /\ x.fw \in Firewalls /\ Sealed(x.fw)
  BY StateFacts DEF Sound
<1>2. /\ f0 \in Firewalls /\ f0.installed
      /\ <<allowLAN, 4>> \in f0.on => <<blockDNS, 4>> \in f0.on
  BY <1>1, InstallFacts DEF Sealed
<1>3. /\ f1 \in Firewalls /\ f1.installed /\ <<blockAll, 4>> \in f1.on
      /\ <<allowLAN, 4>> \in f1.on => <<blockDNS, 4>> \in f1.on
  <2> HIDE DEF f0
  <2> QED BY <1>2, EnableFacts, ChainFacts, Numbers
<1>4. /\ f2 \in Firewalls /\ f2.installed /\ <<blockAll, 4>> \in f2.on
      /\ <<allowLAN, 4>> \in f2.on => <<blockDNS, 4>> \in f2.on
  <2> HIDE DEF f1
  <2> QED BY <1>3, DisableFacts, Numbers
<1>5. /\ f3 \in Firewalls /\ f3.installed /\ <<blockAll, 4>> \in f3.on
      /\ <<blockIPv6, 6>> \in f3.on
      /\ <<allowLAN, 4>> \in f3.on => <<blockDNS, 4>> \in f3.on
  <2> HIDE DEF f2
  <2> QED BY <1>4, EnableFacts, ChainFacts, Numbers
<1>6. disableAllTraffic(x) = [x EXCEPT !.fw = f3, !.ranges = {}]
  BY DEF disableAllTraffic
<1> HIDE DEF f3
<1>7. /\ disableAllTraffic(x) \in ServiceStates
      /\ disableAllTraffic(x).fw = f3 /\ disableAllTraffic(x).strict = x.strict
  BY <1>1, <1>5, <1>6 DEF ServiceStates, Firewalls, Nets
<1>8. QED BY <1>5, <1>7 DEF Sound, Sealed, RulesOf

\* What the kill switch does at service start closes strict mode (KillSwitch::init).
LEMMA InitFacts ==
  ASSUME NEW x, Sound(x)
  PROVE  /\ Sound(init(x)) /\ init(x).strict = x.strict /\ Armed(init(x))
         /\ RulesOf(init(x).fw) = IF x.strict THEN "full" ELSE RulesOf(x.fw)
<1>1. x.strict \in BOOLEAN
  BY StateFacts DEF Sound
<1>2. CASE x.strict
  <2>1. init(x) = disableAllTraffic(x)
    BY <1>2 DEF init
  <2>2. QED BY <1>2, <2>1, DisableAllTrafficFacts DEF Armed
<1>3. CASE ~x.strict
  BY <1>3 DEF init, Armed
<1>4. QED BY <1>1, <1>2, <1>3

\* The change of the mode leaves the rules as the new mode wants them (KillSwitch::refresh).
LEMMA RefreshFacts ==
  ASSUME NEW x, Sound(x), NEW b \in BOOLEAN
  PROVE  /\ Sound(refresh(x, b)) /\ refresh(x, b).strict = b /\ Armed(refresh(x, b))
         /\ RulesOf(refresh(x, b).fw) = IF b THEN "full" ELSE "none"
<1> DEFINE y == [x EXCEPT !.strict = b]
<1>1. Sound(y) /\ y.strict = b
  BY DEF Sound, ServiceStates
<1>2. refresh(x, b) = IF b THEN disableAllTraffic(y) ELSE disableKillSwitch(y)
  BY DEF refresh
<1> HIDE DEF y
<1>3. CASE b
  BY <1>1, <1>2, <1>3, DisableAllTrafficFacts DEF Armed
<1>4. CASE ~b
  BY <1>1, <1>2, <1>4, DisableKillSwitchFacts DEF Armed, Keeps
<1>5. QED BY <1>3, <1>4

\* Allowing addresses never opens nor closes anything else (KillSwitch::addAllowedRange).
LEMMA AddAllowedRangeFacts ==
  ASSUME NEW x, Sound(x), NEW r \in SUBSET Nets
  PROVE  Keeps(x, addAllowedRange(x, r))
<1> DEFINE n  == x.ranges \cup r
           f1 == enableAnchors(x.fw, IPv4, {allowNets})
           f2 == updateAllowNets(f1, n)
<1>1. x \in ServiceStates /\ x.fw \in Firewalls /\ n \in SUBSET Nets /\ Sealed(x.fw)
  BY StateFacts DEF Sound
<1>2. f1 \in Firewalls /\ f1.installed = x.fw.installed /\ Sealed(f1)
  BY <1>1, EnableFacts, Numbers DEF Sealed
<1>3. f2 \in Firewalls /\ f2.installed = x.fw.installed /\ Sealed(f2)
  <2> HIDE DEF f1, n
  <2> QED BY <1>1, <1>2, UpdateFacts DEF Sealed
<1>4. addAllowedRange(x, r) = [x EXCEPT !.ranges = n, !.fw = f2]
  BY <1>1 DEF addAllowedRange, resetAllowedRange, ServiceStates
<1> HIDE DEF n, f2
<1>5. /\ addAllowedRange(x, r) \in ServiceStates
      /\ addAllowedRange(x, r).fw = f2 /\ addAllowedRange(x, r).strict = x.strict
  BY <1>1, <1>3, <1>4 DEF ServiceStates, Firewalls, Nets
<1>6. QED BY <1>3, <1>5 DEF Keeps, Sound, Armed

\* Switching anchors on or off keeps the tables' shape (setAnchorEnabled).
LEMMA SetAnchorFacts ==
  ASSUME NEW fw \in Firewalls, NEW ip, NEW A, NEW b
  PROVE  LET t == setAnchorEnabled(fw, ip, A, b)
         IN  t \in Firewalls /\ t.installed = fw.installed
BY EnableFacts, DisableFacts DEF setAnchorEnabled

\* What a configuration excludes from the tunnel are addresses.
LEMMA ConfigFacts ==
  /\ \A c \in Configs : /\ c.host \in Hosts /\ c.ks \in BOOLEAN /\ c # NoConfig
                        /\ ExcludedAddresses(c) \in SUBSET Addresses
  /\ Addresses \subseteq Nets /\ Sites \subseteq Addresses
<1>1. "none" \notin Hosts
  BY NamesAssumption
<1>2. QED BY <1>1 DEF Configs, NoConfig, ExcludedAddresses, Addresses, Nets

\* The kill switch of an OpenVPN or Xray tunnel seals (KillSwitch::enableKillSwitch).
LEMMA EnableKillSwitchFacts ==
  ASSUME NEW x, Sound(x), NEW c \in Configs
  PROVE  Keeps(x, enableKillSwitch(x, c))
<1> DEFINE all == c.split # 1
           g1  == IF all THEN ExcludedAddresses(c) ELSE {}
           g2  == IF all THEN {} ELSE Sites
           f0  == IF x.fw.installed THEN x.fw ELSE install
           f1  == setAnchorEnabled(f0, Both, {blockAll}, all)
           f2  == setAnchorEnabled(f1, IPv4, {allowNets, blockNets}, all)
           f3  == updateAllowNets(f2, g1)
           f4  == updateBlockNets(f3, g2)
           f5  == enableAnchors(f4, Both, {allowMarkedXray})
           f6  == TunnelRules(f5)
<1>1. x \in ServiceStates /\ x.fw \in Firewalls
  BY StateFacts DEF Sound
<1>2. f0 \in Firewalls /\ f0.installed
  BY <1>1, InstallFacts
<1>3. g1 \in SUBSET Nets /\ g2 \in SUBSET Addresses
  BY ConfigFacts
<1>4. enableKillSwitch(x, c) = [x EXCEPT !.fw = f6]
  BY DEF enableKillSwitch
<1> HIDE DEF all, f0, g1, g2
<1>5. f1 \in Firewalls /\ f1.installed
  BY <1>2, SetAnchorFacts
<1> HIDE DEF f1
<1>6. f2 \in Firewalls /\ f2.installed
  BY <1>5, SetAnchorFacts
<1> HIDE DEF f2
<1>7. f3 \in Firewalls /\ f3.installed
  BY <1>3, <1>6, UpdateFacts
<1> HIDE DEF f3
<1>8. f4 \in Firewalls /\ f4.installed
  BY <1>3, <1>7, UpdateFacts
<1> HIDE DEF f4
<1>9. f5 \in Firewalls /\ f5.installed
  BY <1>8, EnableFacts
<1> HIDE DEF f5
<1>10. f6 \in Firewalls /\ f6.installed /\ Sealed(f6)
  BY <1>9, TunnelRulesFacts
<1> HIDE DEF f6
<1>11. /\ enableKillSwitch(x, c) \in ServiceStates
       /\ enableKillSwitch(x, c).fw = f6 /\ enableKillSwitch(x, c).strict = x.strict
  BY <1>1, <1>4, <1>10, SetFw
<1>12. QED BY <1>10, <1>11 DEF Keeps, Sound, Armed

\* The kill switch of a WireGuard tunnel seals (WireguardUtilsLinux::applyFirewallRules).
LEMMA ApplyFirewallRulesFacts ==
  ASSUME NEW x, Sound(x), NEW c \in Configs
  PROVE  Keeps(x, applyFirewallRules(x, c))
<1> DEFINE all == c.split # 1
           g1  == IF all THEN ExcludedAddresses(c) ELSE {}
           g2  == IF all THEN {} ELSE Sites
           f0  == IF x.fw.installed THEN x.fw ELSE install
           f1  == setAnchorEnabled(f0, Both, {blockAll}, all)
           f2  == setAnchorEnabled(f1, IPv4, {allowNets}, all)
           f3  == updateAllowNets(f2, g1)
           f4  == setAnchorEnabled(f3, IPv4, {blockNets}, ~all)
           f5  == updateBlockNets(f4, g2)
           f6  == TunnelRules(f5)
<1>1. x \in ServiceStates /\ x.fw \in Firewalls
  BY StateFacts DEF Sound
<1>2. f0 \in Firewalls /\ f0.installed
  BY <1>1, InstallFacts
<1>3. g1 \in SUBSET Nets /\ g2 \in SUBSET Addresses
  BY ConfigFacts
<1>4. applyFirewallRules(x, c) = [x EXCEPT !.fw = f6]
  BY DEF applyFirewallRules
<1> HIDE DEF all, f0, g1, g2
<1>5. f1 \in Firewalls /\ f1.installed
  BY <1>2, SetAnchorFacts
<1> HIDE DEF f1
<1>6. f2 \in Firewalls /\ f2.installed
  BY <1>5, SetAnchorFacts
<1> HIDE DEF f2
<1>7. f3 \in Firewalls /\ f3.installed
  BY <1>3, <1>6, UpdateFacts
<1> HIDE DEF f3
<1>8. f4 \in Firewalls /\ f4.installed
  BY <1>7, SetAnchorFacts
<1> HIDE DEF f4
<1>9. f5 \in Firewalls /\ f5.installed
  BY <1>3, <1>8, UpdateFacts
<1> HIDE DEF f5
<1>10. f6 \in Firewalls /\ f6.installed /\ Sealed(f6)
  BY <1>9, TunnelRulesFacts
<1> HIDE DEF f6
<1>11. /\ applyFirewallRules(x, c) \in ServiceStates
       /\ applyFirewallRules(x, c).fw = f6 /\ applyFirewallRules(x, c).strict = x.strict
  BY <1>1, <1>4, <1>10, SetFw
<1>12. QED BY <1>10, <1>11 DEF Keeps, Sound, Armed
-----------------------------------------------------------------------------
(***************************************************************************)
(* The daemon.  Most of its steps leave the rules alone.                   *)
(***************************************************************************)
\* A step that leaves the rules and the mode alone keeps the invariant.
LEMMA SameRules ==
  ASSUME NEW x, Sound(x), NEW t \in ServiceStates, t.fw = x.fw, t.strict = x.strict
  PROVE  Keeps(x, t)
BY DEF Sound, Keeps, Armed

\* Exclusion routes (Daemon::addExclusionRoutes, delExclusionRoutes, updatePeer's own route).
LEMMA RouteFacts ==
  ASSUME NEW x, Sound(x), NEW A \in SUBSET Addresses, NEW c \in Configs
  PROVE  /\ Keeps(x, addExclusionRoutes(x, A))
         /\ Keeps(x, delExclusionRoutes(x, A))
         /\ Keeps(x, addPeerRoute(x, c))
<1>0. /\ x \in ServiceStates /\ x.excluded \in [Addresses -> Nat] /\ x.routes \in SUBSET Addresses
      /\ c.host \in Addresses
  BY ConfigFacts DEF Sound, ServiceStates, Addresses
<1>1. Keeps(x, addExclusionRoutes(x, A))
  <2> DEFINE e == [a \in Addresses |->
                     IF a \in A /\ (x.monitor \/ x.excluded[a] > 0) THEN x.excluded[a] + 1
                     ELSE x.excluded[a]]
             r == x.routes \cup {a \in A : x.monitor /\ x.excluded[a] = 0}
             t == addExclusionRoutes(x, A)
  <2>1. e \in [Addresses -> Nat] /\ r \in SUBSET Addresses
    BY <1>0
  <2>2. t = [x EXCEPT !.excluded = e, !.routes = r]
    BY <1>0 DEF addExclusionRoutes, ServiceStates
  <2> HIDE DEF e, r, t
  <2>3. t \in ServiceStates /\ t.fw = x.fw /\ t.strict = x.strict
    BY <1>0, <2>1, <2>2 DEF ServiceStates
  <2>4. QED BY <2>3, SameRules DEF t
<1>2. Keeps(x, delExclusionRoutes(x, A))
  <2> DEFINE B == A \ Ranges
             e == [a \in Addresses |->
                     IF a \in B THEN (IF x.excluded[a] > 1 THEN x.excluded[a] - 1 ELSE 0)
                     ELSE x.excluded[a]]
             r == x.routes \ {a \in B : x.monitor /\ x.excluded[a] <= 1}
             t == delExclusionRoutes(x, A)
  <2>1. e \in [Addresses -> Nat] /\ r \in SUBSET Addresses
    BY <1>0
  <2>2. t = [x EXCEPT !.excluded = e, !.routes = r]
    BY <1>0 DEF delExclusionRoutes, ServiceStates
  <2> HIDE DEF e, r, t
  <2>3. t \in ServiceStates /\ t.fw = x.fw /\ t.strict = x.strict
    BY <1>0, <2>1, <2>2 DEF ServiceStates
  <2>4. QED BY <2>3, SameRules DEF t
<1>3. Keeps(x, addPeerRoute(x, c))
  <2> DEFINE t == addPeerRoute(x, c)
  <2>1. t \in ServiceStates /\ t.fw = x.fw /\ t.strict = x.strict
    BY <1>0 DEF addPeerRoute, ServiceStates
  <2> HIDE DEF t
  <2>2. QED BY <2>1, SameRules DEF t
<1>4. QED BY <1>1, <1>2, <1>3

\* The two halves of a deactivation as one (Daemon::deactivate).
LEMMA DeactivateWhole ==
  ASSUME NEW x \in ServiceStates
  PROVE  LET gone == {a \in Addresses : x.monitor /\ (x.excluded[a] > 0 \/ a = x.conn.host)}
             t    == [x EXCEPT !.routes = @ \ gone, !.excluded = NoneExcluded,
                               !.conn = NoConfig, !.date = FALSE, !.resolvers = FALSE,
                               !.monitor = FALSE]
         IN  deactivate(x) = IF x.proc = "off" THEN t ELSE disableKillSwitch([t EXCEPT !.proc = "off"])
<1> DEFINE e    == {a \in Addresses : x.monitor /\ x.excluded[a] > 0}
           gone == {a \in Addresses : x.monitor /\ (x.excluded[a] > 0 \/ a = x.conn.host)}
           q    == IF x.monitor THEN x.routes \ {x.conn.host} ELSE x.routes
           r    == x.routes \ gone
           p    == [x EXCEPT !.resolvers = FALSE, !.routes = q]
           u    == [p EXCEPT !.routes = q \ e, !.excluded = NoneExcluded, !.conn = NoConfig,
                             !.date = FALSE, !.monitor = FALSE]
           t    == [x EXCEPT !.routes = r, !.excluded = NoneExcluded, !.conn = NoConfig,
                             !.date = FALSE, !.resolvers = FALSE, !.monitor = FALSE]
<1>1. q \ e = r
  BY DEF ServiceStates
<1>2. deletePeer(x) = p
  BY DEF deletePeer, ServiceStates
<1>3. /\ p.monitor = x.monitor /\ p.excluded = x.excluded /\ p.routes = q /\ p.proc = x.proc
  BY DEF ServiceStates
<1> HIDE DEF q
<1>4. {a \in Addresses : p.monitor /\ p.excluded[a] > 0} = e
  BY <1>3
<1> HIDE DEF e, r
<1>5. u = t
  BY <1>1 DEF ServiceStates
<1>6. u = [p EXCEPT !.routes = @ \ e, !.excluded = NoneExcluded, !.conn = NoConfig,
                    !.date = FALSE, !.monitor = FALSE]
  BY <1>3
<1> HIDE DEF p
<1>7. deleteInterface(p) = IF p.proc = "off" THEN u ELSE disableKillSwitch([u EXCEPT !.proc = "off"])
  BY <1>4, <1>6 DEF deleteInterface
<1> HIDE DEF u, t
<1>8. deactivate(x) = IF x.proc = "off" THEN t ELSE disableKillSwitch([t EXCEPT !.proc = "off"])
  BY <1>2, <1>3, <1>5, <1>7 DEF deactivate
<1>9. QED BY <1>8 DEF t, r, gone

\* How an activation may begin (Daemon::activate).
LEMMA ActivateBegins ==
  ASSUME NEW x \in ServiceStates, NEW c, NEW o \in activate(x, c)
  PROVE  \/ x.conn = NoConfig /\ o \in activateOff(x, c)
         \/ x.conn # NoConfig /\ o = Outcome(addPeerRoute(addExclusionRoutes(x, ExcludedAddresses(c)), c),
                                             "switch", c, x.conn)
         \/ x.conn # NoConfig /\ o \in Failed(deactivate(x), c)
         \/ x.conn # NoConfig /\ o \in activateOff(deactivate(x), c)
<1>1. CASE x.conn = NoConfig
  BY <1>1 DEF activate
<1>2. CASE x.conn # NoConfig
  <2>1. o \in switchServer(x, c) \/ o \in takeOver(deletePeer(x), c)
    BY <1>2 DEF activate
  <2>2. CASE o \in switchServer(x, c)
    BY <1>2, <2>2 DEF switchServer
  <2>3. CASE o \in takeOver(deletePeer(x), c)
    BY <1>2, <2>3 DEF takeOver, deactivate
  <2>4. QED BY <2>1, <2>2, <2>3
<1>3. QED BY <1>1, <1>2

\* Taking a tunnel down closes strict mode, whether or not it reaches the rules
\* (Daemon::deactivate, deleteInterface).
LEMMA DeactivateFacts ==
  ASSUME NEW x, Sound(x)
  PROVE  /\ Keeps(x, deactivate(x))
         /\ deactivate(x).fw = x.fw \/ (~x.strict /\ RulesOf(deactivate(x).fw) = "none")
              \/ (x.strict /\ (x.fw.installed => RulesOf(deactivate(x).fw) = "full"))
<1> DEFINE gone == {a \in Addresses : x.monitor /\ (x.excluded[a] > 0 \/ a = x.conn.host)}
           r    == x.routes \ gone
           t    == [x EXCEPT !.routes = r, !.excluded = NoneExcluded, !.conn = NoConfig,
                             !.date = FALSE, !.resolvers = FALSE, !.monitor = FALSE]
           u    == [t EXCEPT !.proc = "off"]
<1>1. x \in ServiceStates /\ r \in SUBSET Addresses /\ NoneExcluded \in [Addresses -> Nat]
      /\ x.strict \in BOOLEAN
  BY DEF Sound, ServiceStates, NoneExcluded
<1>2. deactivate(x) = IF x.proc = "off" THEN t ELSE disableKillSwitch(u)
  BY <1>1, DeactivateWhole
<1> HIDE DEF r
<1>3. t \in ServiceStates /\ t.fw = x.fw /\ t.strict = x.strict
  BY <1>1 DEF ServiceStates
<1> HIDE DEF t
<1>4. u \in ServiceStates /\ u.fw = x.fw /\ u.strict = x.strict
  BY <1>3 DEF ServiceStates
<1> HIDE DEF u
<1>5. Keeps(x, t) /\ Keeps(x, u) /\ Sound(u)
  BY <1>3, <1>4, SameRules DEF Keeps
<1>6. Keeps(u, disableKillSwitch(u))
  BY <1>5, DisableKillSwitchFacts
<1>7. Keeps(x, deactivate(x))
  BY <1>2, <1>5, <1>6, KeepsTwice
<1>8. QED BY <1>1, <1>2, <1>3, <1>4, <1>5, <1>7, DisableKillSwitchFacts

\* The ends of a process, of the service and of the machine (faults; checkHandshake).
LEMMA EndFacts ==
  ASSUME NEW x, Sound(x)
  PROVE  /\ Keeps(x, processGone(x)) /\ processGone(x).fw = x.fw
         /\ Keeps(x, serviceGone(x)) /\ serviceGone(x).fw = x.fw
         /\ Keeps(x, checkHandshake(x))
         /\ Sound(rebooted(x)) /\ rebooted(x).strict = x.strict
         /\ rebooted(x).fw = uninstall
<1>1. x \in ServiceStates /\ NoneExcluded \in [Addresses -> Nat]
  BY DEF Sound, ServiceStates, NoneExcluded
<1>2. /\ processGone(x) \in ServiceStates /\ processGone(x).fw = x.fw
      /\ processGone(x).strict = x.strict
  BY <1>1 DEF ServiceStates, processGone
<1>3. /\ serviceGone(x) \in ServiceStates /\ serviceGone(x).fw = x.fw
      /\ serviceGone(x).strict = x.strict
  BY <1>1 DEF ServiceStates, serviceGone
<1>4. /\ checkHandshake(x) \in ServiceStates /\ checkHandshake(x).fw = x.fw
      /\ checkHandshake(x).strict = x.strict
  BY <1>1 DEF ServiceStates, checkHandshake
<1>5. /\ rebooted(x) \in ServiceStates /\ rebooted(x).fw = uninstall
      /\ rebooted(x).strict = x.strict
  BY <1>3, InstallFacts DEF ServiceStates, rebooted, Firewalls, Nets
<1>6. Sealed(uninstall)
  BY InstallFacts DEF Sealed
<1>7. QED BY <1>2, <1>3, <1>4, <1>5, <1>6, SameRules DEF Sound
(***************************************************************************)
(* The parts of an activation: every outcome keeps the invariant.          *)
(***************************************************************************)
Good(x, c, o) ==
  /\ Keeps(x, o.s)
  /\ o.at \in {"name", "setup", "peer", "switch", "done", "failed"}
  /\ o.c = c /\ o.last \in Configs \cup {NoConfig}

\* An outcome is as good as its state.
LEMMA OutcomeGood ==
  ASSUME NEW x, NEW t, Keeps(x, t), NEW c, NEW last \in Configs \cup {NoConfig},
         NEW at \in {"name", "setup", "peer", "switch", "done", "failed"}
  PROVE  Good(x, c, Outcome(t, at, c, last))
BY DEF Good, Outcome

\* A failure leaves the state it failed in.
LEMMA FailedGood ==
  ASSUME NEW x, NEW t, Keeps(x, t), NEW c, NEW o \in Failed(t, c)
  PROVE  Good(x, c, o)
BY OutcomeGood DEF Failed

\* An activation that goes on from a state that kept the invariant keeps it.
LEMMA GoodLater ==
  ASSUME NEW x, NEW y, NEW c, NEW o, Keeps(x, y), Good(y, c, o)
  PROVE  Good(x, c, o)
BY KeepsTwice DEF Good

\* Nothing done keeps the invariant.
LEMMA KeepsSelf ==
  ASSUME NEW x, Sound(x)
  PROVE  Keeps(x, x)
BY DEF Keeps

\* The routes of a configuration (activate, switchServer).
LEMMA RoutesOfConfig ==
  ASSUME NEW x, Sound(x), NEW c \in Configs
  PROVE  Keeps(x, addPeerRoute(addExclusionRoutes(x, ExcludedAddresses(c)), c))
<1>1. ExcludedAddresses(c) \in SUBSET Addresses
  BY ConfigFacts
<1> DEFINE y == addExclusionRoutes(x, ExcludedAddresses(c))
<1>2. Keeps(x, y) /\ Sound(y)
  BY <1>1, RouteFacts DEF Keeps
<1> HIDE DEF y
<1>3. Keeps(y, addPeerRoute(y, c))
  BY <1>1, <1>2, RouteFacts
<1>4. QED BY <1>2, <1>3, KeepsTwice DEF y

\* From the interface that is there to the peer's command (Daemon::activate).
LEMMA BringUpGood ==
  ASSUME NEW x, Sound(x), NEW c \in Configs, NEW o \in bringUp(x, c)
  PROVE  Good(x, c, o)
BY KeepsSelf, FailedGood, RoutesOfConfig, OutcomeGood DEF bringUp

\* The start of the process, or its skipping (WireguardUtilsLinux::addInterface).
LEMMA ActivateOffGood ==
  ASSUME NEW x, Sound(x), NEW c \in Configs, NEW o \in activateOff(x, c)
  PROVE  Good(x, c, o)
<1> DEFINE t == [x EXCEPT !.proc = "running"]
<1>1. t \in ServiceStates /\ t.fw = x.fw /\ t.strict = x.strict
  BY DEF Sound, ServiceStates
<1>2. Keeps(x, t)
  <2> HIDE DEF t
  <2> QED BY <1>1, SameRules
<1>3. ASSUME NEW p \in addInterface(x, c) PROVE Good(x, c, p)
  <2>1. p \in Failed(x, c) \/ p = Outcome(t, "name", c, NoConfig)
    BY <1>3 DEF addInterface
  <2> HIDE DEF t
  <2>2. QED BY <1>2, <2>1, KeepsSelf, FailedGood, OutcomeGood
<1>4. QED BY <1>3, BringUpGood DEF activateOff

\* The first part of an activation (Daemon::activate, switchServer).
LEMMA ActivateGood ==
  ASSUME NEW x, Sound(x), NEW c \in Configs, NEW o \in activate(x, c)
  PROVE  Good(x, c, o)
<1> DEFINE y == deactivate(x)
<1>1. Keeps(x, y) /\ Sound(y)
  BY DeactivateFacts DEF Keeps
<1>2. x.conn \in Configs \cup {NoConfig}
  BY DEF Sound, ServiceStates
<1> DEFINE z == addPeerRoute(addExclusionRoutes(x, ExcludedAddresses(c)), c)
<1>3. Keeps(x, z)
  BY RoutesOfConfig
<1>4. \/ o \in activateOff(x, c)
      \/ o = Outcome(z, "switch", c, x.conn)
      \/ o \in Failed(y, c)
      \/ o \in activateOff(y, c)
  BY ActivateBegins DEF Sound
<1> HIDE DEF y, z
<1>5. CASE o \in activateOff(x, c)
  BY <1>5, ActivateOffGood
<1>6. CASE o = Outcome(z, "switch", c, x.conn)
  BY <1>2, <1>3, <1>6, OutcomeGood
<1>7. CASE o \in Failed(y, c)
  BY <1>1, <1>7, FailedGood
<1>8. CASE o \in activateOff(y, c)
  BY <1>1, <1>8, ActivateOffGood, GoodLater
<1>9. QED BY <1>4, <1>5, <1>6, <1>7, <1>8

\* The tunnel's name (waitForTunnelName).
LEMMA NameReadyGood ==
  ASSUME NEW x, Sound(x), NEW c \in Configs, NEW o \in nameReady(x, c)
  PROVE  Good(x, c, o)
<1> DEFINE k == [x EXCEPT !.proc = "killed"]
           n == [x EXCEPT !.monitor = TRUE]
<1>1. /\ k \in ServiceStates /\ k.fw = x.fw /\ k.strict = x.strict
      /\ n \in ServiceStates /\ n.fw = x.fw /\ n.strict = x.strict
  BY DEF Sound, ServiceStates
<1>2. o \in Failed(x, c) \/ o \in Failed(k, c) \/ o = Outcome(n, "setup", c, NoConfig)
  BY DEF nameReady
<1> HIDE DEF k, n
<1>3. Keeps(x, k) /\ Keeps(x, n) /\ Keeps(x, x)
  BY <1>1, SameRules, KeepsSelf
<1>4. QED BY <1>2, <1>3, FailedGood, OutcomeGood

\* The answer to the set-up command, and the firewall (addInterface's end).
LEMMA SetupReplyGood ==
  ASSUME NEW x, Sound(x), NEW c \in Configs, NEW o \in setupReply(x, c)
  PROVE  Good(x, c, o)
<1> DEFINE y == IF c.ks THEN applyFirewallRules(x, c) ELSE x
<1>1. Keeps(x, y) /\ Sound(y)
  BY KeepsSelf, ApplyFirewallRulesFacts DEF Keeps
<1>2. o \in Failed(x, c) \/ o \in bringUp(y, c)
  BY DEF setupReply
<1> HIDE DEF y
<1>3. QED BY <1>1, <1>2, KeepsSelf, FailedGood, BringUpGood, GoodLater

\* The answer to the peer's command, and the rest of the activation (updatePeer).
LEMMA PeerReplyGood ==
  ASSUME NEW x, Sound(x), NEW c \in Configs, NEW o \in peerReply(x, c)
  PROVE  Good(x, c, o)
<1> DEFINE t == [x EXCEPT !.resolvers = TRUE]
           u == [t EXCEPT !.conn = c, !.date = FALSE]
<1>1. /\ t \in ServiceStates /\ t.fw = x.fw /\ t.strict = x.strict
      /\ u \in ServiceStates /\ u.fw = x.fw /\ u.strict = x.strict
  BY DEF Sound, ServiceStates
<1>2. o \in Failed(x, c) \/ o \in Failed(t, c) \/ o = Outcome(u, "done", c, NoConfig)
  BY DEF peerReply
<1> HIDE DEF t, u
<1>3. Keeps(x, t) /\ Keeps(x, u) /\ Keeps(x, x)
  BY <1>1, SameRules, KeepsSelf
<1>4. QED BY <1>2, <1>3, FailedGood, OutcomeGood

\* The answer to a server switch (switchServer's end).
LEMMA SwitchReplyGood ==
  ASSUME NEW x, Sound(x), NEW c \in Configs, NEW last \in Configs \cup {NoConfig},
         NEW o \in switchReply(x, c, last)
  PROVE  Good(x, c, o)
<1> DEFINE A == ExcludedAddresses(last)
           B == A \cap Addresses
           d == delExclusionRoutes(x, A)
           t == [d EXCEPT !.conn = c, !.date = FALSE, !.resolvers = FALSE]
           u == [t EXCEPT !.resolvers = TRUE]
           v == [t EXCEPT !.date = x.date]
<1>0. x \in ServiceStates /\ x.excluded \in [Addresses -> Nat] /\ x.routes \in SUBSET Addresses
  BY DEF Sound, ServiceStates
<1>1. Keeps(x, delExclusionRoutes(x, B))
  BY RouteFacts
<1>2. d = delExclusionRoutes(x, B)
  <2> HIDE DEF A
  <2>1. \A a \in Addresses : a \in A \ Ranges <=> a \in B \ Ranges
    OBVIOUS
  <2>2. [a \in Addresses |-> IF a \in A \ Ranges
                             THEN (IF x.excluded[a] > 1 THEN x.excluded[a] - 1 ELSE 0)
                             ELSE x.excluded[a]]
        = [a \in Addresses |-> IF a \in B \ Ranges
                             THEN (IF x.excluded[a] > 1 THEN x.excluded[a] - 1 ELSE 0)
                             ELSE x.excluded[a]]
    BY <2>1
  <2>3. x.routes \ {a \in A \ Ranges : x.monitor /\ x.excluded[a] <= 1}
        = x.routes \ {a \in B \ Ranges : x.monitor /\ x.excluded[a] <= 1}
    BY <1>0
  <2> HIDE DEF B
  <2>4. QED BY <1>0, <2>2, <2>3 DEF delExclusionRoutes, ServiceStates
<1> HIDE DEF d
<1>3. Keeps(x, d) /\ Sound(d)
  BY <1>1, <1>2 DEF Keeps
<1>4. /\ t \in ServiceStates /\ t.fw = d.fw /\ t.strict = d.strict
      /\ u \in ServiceStates /\ u.fw = d.fw /\ u.strict = d.strict
      /\ v \in ServiceStates /\ v.fw = d.fw /\ v.strict = d.strict
  BY <1>0, <1>3 DEF Sound, ServiceStates
<1>5. o \in Failed(x, c) \/ o \in Failed(v, c) \/ o = Outcome(u, "done", c, NoConfig)
  BY DEF switchReply, d
<1> HIDE DEF t, u, v
<1>6. Keeps(x, v) /\ Keeps(x, u) /\ Keeps(x, x)
  BY <1>3, <1>4, SameRules, KeepsTwice, KeepsSelf
<1>7. QED BY <1>5, <1>6, FailedGood, OutcomeGood

\* The activation that waits goes on.
LEMMA ResumeGood ==
  ASSUME NEW x, Sound(x), NEW f \in Frames, f # NoFrame, NEW o \in resume(x, f)
  PROVE  Good(x, f.c, o)
<1>1. /\ f.at \in {"name", "setup", "peer", "switch"}
      /\ f.c \in Configs /\ f.last \in Configs \cup {NoConfig}
  BY DEF Frames
<1>2. CASE f.at = "name"
  BY <1>1, <1>2, NameReadyGood DEF resume
<1>3. CASE f.at = "setup"
  BY <1>1, <1>3, SetupReplyGood DEF resume
<1>4. CASE f.at = "peer"
  BY <1>1, <1>4, PeerReplyGood DEF resume
<1>5. CASE f.at = "switch"
  BY <1>1, <1>5, SwitchReplyGood DEF resume
<1>6. QED BY <1>1, <1>2, <1>3, <1>4, <1>5
-----------------------------------------------------------------------------
(***************************************************************************)
(* The inductive invariant, and what a step is.                            *)
(***************************************************************************)
Commands == [type : {"activate"}, c : Configs] \cup {Deactivate}
Apps     == [kind : Kinds, phase : {"starting", "up", "dropped", "failed"}, c : Configs]
               \cup {Off(k) : k \in Kinds \cup {"none"}}
AllMarks == Untold \cup {"gateway", "toggle", "died"}

\* The types of everything but the service's own state.
RestOK ==
  /\ up \in BOOLEAN /\ frame \in Frames /\ inbox \in Seq(Commands) /\ app \in Apps
  /\ marks \in SUBSET AllMarks /\ faults \in 0 .. MaxFaults

\* A running service in strict mode has its rules installed, and installed rules seal.
IInv == RestOK /\ Sound(s) /\ (up => Armed(s))

\* The five kinds of steps, as far as the rules are concerned.
Calm    == UNCHANGED up /\ Keeps(s, s') /\ (up \/ s'.fw = s.fw)
Toggles == up /\ UNCHANGED up /\ \E b \in BOOLEAN : s' = refresh(s, b)
Ends    == up /\ up' = FALSE /\ (s' = serviceGone(s) \/ s' = serviceGone(deactivate(s)))
Begins  == ~up /\ up' = TRUE /\ s' = init(s)
Reboots == up' = FALSE /\ s' = rebooted(s)

\* The types, in the two ways they are written.
LEMMA TypesAgree == TypeOK <=> s \in ServiceStates /\ RestOK
BY DEF TypeOK, RestOK, Commands, Apps, AllMarks

\* The marks stay marks.
LEMMA MarkedFacts ==
  ASSUME RestOK, NEW m \in AllMarks
  PROVE  Marked(m) \in SUBSET AllMarks
BY DEF Marked, RestOK, AllMarks

\* The client's object has one of the known shapes.
LEMMA AppFacts ==
  ASSUME RestOK
  PROVE  /\ app.phase # "off" => app.kind \in Kinds /\ app.c \in Configs
                                  /\ app.phase \in {"starting", "up", "dropped", "failed"}
                                  /\ \A p \in {"starting", "up", "dropped", "failed"} :
                                        [app EXCEPT !.phase = p] \in Apps
         /\ app.kind \in Kinds \cup {"none"}
         /\ Off(app.kind) \in Apps /\ NoApp \in Apps /\ Dropped \in Apps
<1>1. CASE app \in [kind : Kinds, phase : {"starting", "up", "dropped", "failed"}, c : Configs]
  <2>1. \A p \in {"starting", "up", "dropped", "failed"} : [app EXCEPT !.phase = p] \in Apps
    BY <1>1 DEF Apps
  <2>2. Dropped \in Apps
    BY <1>1, <2>1 DEF Dropped, Apps
  <2>3. QED BY <1>1, <2>1, <2>2 DEF Apps, NoApp
<1>2. CASE app \in {Off(k) : k \in Kinds \cup {"none"}}
  <2>1. app.phase = "off" /\ app.kind \in Kinds \cup {"none"}
    BY <1>2 DEF Off
  <2>2. Dropped = app
    BY <2>1 DEF Dropped
  <2>3. QED BY <1>2, <2>1, <2>2 DEF Apps, NoApp
<1>3. QED BY <1>1, <1>2 DEF RestOK, Apps

\* What may be left of the inbox when the connection's object is freed.
LEMMA LostRestFacts ==
  ASSUME RestOK, NEW q \in LostRest
  PROVE  q \in Seq(Commands)
<1>1. CASE frame # NoFrame
  BY <1>1 DEF LostRest
<1>2. CASE frame = NoFrame
  <2>1. PICK k \in 1 .. Len(inbox) : q = SubSeq(inbox, 1, k)
    BY <1>2 DEF LostRest
  <2>2. QED BY <2>1 DEF RestOK
<1>3. QED BY <1>1, <1>2

\* A new object, whatever its kind.
LEMMA NewFacts ==
  ASSUME RestOK, NEW kind \in Kinds, NEW c \in Configs, NEW words \in Seq(Commands),
         New(kind, c, words)
  PROVE  RestOK' /\ up /\ UNCHANGED up
<1>1. app' \in Apps
  BY DEF New, Apps
<1>2. Append(inbox, Deactivate) \in Seq(Commands)
  BY DEF RestOK, Commands
<1>3. inbox' \in Seq(Commands) /\ faults' \in 0 .. MaxFaults
  <2>1. CASE UNCHANGED faults /\ inbox' = (IF app.kind = "wg" THEN Append(inbox, Deactivate)
                                           ELSE inbox) \o words
    BY <1>2, <2>1 DEF RestOK
  <2>2. CASE Fault /\ \E q \in LostRest : inbox' = q \o words
    <3>1. PICK q \in LostRest : inbox' = q \o words
      BY <2>2
    <3>2. inbox' \in Seq(Commands)
      BY <3>1, LostRestFacts
    <3>3. QED BY <2>2, <3>2, BoundsAssumption DEF Fault, RestOK
  <2>3. QED BY <2>1, <2>2 DEF New
<1>4. marks' \in SUBSET AllMarks
  BY MarkedFacts DEF New, RestOK, AllMarks, Untold
<1>5. QED BY <1>1, <1>3, <1>4 DEF New, RestOK
\* Stopping an OpenVPN or Xray object (disableKillSwitch).
LEMMA StopAgainFacts ==
  ASSUME Sound(s)
  PROVE  Keeps(s, stopAgain) /\ Sound(stopAgain)
BY KeepsSelf, DisableKillSwitchFacts DEF stopAgain, Keeps

\* A tunnel of any kind is started (WireguardProtocol, OpenVpnProtocol, XrayProtocol::start).
LEMMA StartFacts ==
  ASSUME IInv, StartTunnel
  PROVE  RestOK' /\ Calm
<1>1. RestOK /\ Sound(s) /\ Keeps(s, stopAgain) /\ Sound(stopAgain)
  BY StopAgainFacts DEF IInv
<1>2. PICK h \in Hosts, x \in Options :
        \/ StartWireguard([host |-> h, split |-> x.split, ks |-> x.ks])
        \/ StartOpenVpn([host |-> h, split |-> x.split, ks |-> x.ks])
        \/ StartXray([host |-> h, split |-> x.split, ks |-> x.ks])
  BY DEF StartTunnel
<1> DEFINE c == [host |-> h, split |-> x.split, ks |-> x.ks]
<1>3. c \in Configs /\ {c.host} \in SUBSET Nets
  BY BoundsAssumption DEF Configs, Nets, Addresses
<1>4. <<>> \in Seq(Commands) /\ <<Activate(c)>> \in Seq(Commands)
  BY <1>3 DEF Activate, Commands
<1>5. StartWireguard(c) \/ StartOpenVpn(c) \/ StartXray(c)
  BY <1>2
<1> HIDE DEF c
<1>6. CASE StartWireguard(c)
  <2>1. New("wg", c, <<Activate(c)>>) /\ s' = stopAgain
    BY <1>6 DEF StartWireguard
  <2>2. QED BY <1>1, <1>3, <1>4, <2>1, NewFacts DEF Calm, Kinds
<1>7. CASE StartOpenVpn(c)
  <2>1. New("ovpn", c, <<>>) /\ s' = addAllowedRange(disableKillSwitch(stopAgain), {c.host})
    BY <1>7 DEF StartOpenVpn
  <2>2. Keeps(stopAgain, disableKillSwitch(stopAgain)) /\ Sound(disableKillSwitch(stopAgain))
    BY <1>1, DisableKillSwitchFacts DEF Keeps
  <2>3. Keeps(disableKillSwitch(stopAgain), s')
    BY <1>3, <2>1, <2>2, AddAllowedRangeFacts
  <2>4. Keeps(s, s')
    BY <1>1, <2>2, <2>3, KeepsTwice
  <2>5. QED BY <1>1, <1>3, <1>4, <2>1, <2>4, NewFacts DEF Calm, Kinds
<1>8. CASE StartXray(c)
  <2>1. New("xray", c, <<>>) /\ s' = stopAgain
    BY <1>8 DEF StartXray
  <2>2. QED BY <1>1, <1>3, <1>4, <2>1, NewFacts DEF Calm, Kinds
<1>9. QED BY <1>5, <1>6, <1>7, <1>8

\* The tunnels' own steps (updateVpnGateway, setupRouting, the finished handlers).
LEMMA TunnelFacts ==
  ASSUME IInv,
         UpdateVpnGateway \/ SetupRouting \/ OpenVpnFinished \/ Tun2SocksFinished
  PROVE  RestOK' /\ Calm
<1>1. RestOK /\ Sound(s) /\ Keeps(s, s) /\ Keeps(s, disableKillSwitch(s))
  BY DisableKillSwitchFacts, KeepsSelf DEF IInv
<1>2. ASSUME NEW c \in Configs PROVE Keeps(s, armed(s, c))
  BY <1>1, EnableKillSwitchFacts DEF armed
<1>3. ASSUME NEW p \in {"starting", "up", "dropped", "failed"}, app.phase # "off", Phase(p)
      PROVE  app' \in Apps
  BY <1>1, <1>3, AppFacts DEF Phase
<1>4. CASE UpdateVpnGateway
  <2>1. app' \in Apps
    BY <1>3, <1>4 DEF UpdateVpnGateway
  <2>2. Keeps(s, s')
    BY <1>1, <1>2, <1>4, AppFacts DEF UpdateVpnGateway
  <2>3. QED BY <1>1, <1>4, <2>1, <2>2 DEF UpdateVpnGateway, RestOK, Calm
<1>5. CASE SetupRouting
  <2>1. app' \in Apps
    BY <1>3, <1>5 DEF SetupRouting
  <2>2. Keeps(s, s')
    <3>1. Keeps(s, armed(s, app.c)) /\ Sound(armed(s, app.c))
      BY <1>1, <1>2, <1>5, AppFacts DEF SetupRouting, Keeps
    <3>2. Keeps(s, disableKillSwitch(armed(s, app.c)))
      BY <3>1, DisableKillSwitchFacts, KeepsTwice
    <3>3. QED BY <1>1, <1>5, <3>1, <3>2 DEF SetupRouting
  <2>3. QED BY <1>1, <1>5, <2>1, <2>2 DEF SetupRouting, RestOK, Calm
<1>6. CASE OpenVpnFinished
  <2>1. app' \in Apps
    BY <1>3, <1>6 DEF OpenVpnFinished
  <2>2. QED BY <1>1, <1>6, <2>1 DEF OpenVpnFinished, RestOK, Calm
<1>7. CASE Tun2SocksFinished
  <2>1. app' \in Apps
    BY <1>3, <1>7 DEF Tun2SocksFinished
  <2>2. QED BY <1>1, <1>7, <2>1 DEF Tun2SocksFinished, RestOK, Calm
<1>8. QED BY <1>4, <1>5, <1>6, <1>7

\* The stop of an object and the call of the gateway's controller.
LEMMA StopFacts ==
  ASSUME IInv, Stop \/ PrepareRequest
  PROVE  RestOK' /\ Calm
<1>1. RestOK /\ Sound(s) /\ Keeps(s, s) /\ Keeps(s, stopAgain)
  BY StopAgainFacts, KeepsSelf DEF IInv
<1>2. CASE Stop
  <2>1. app' \in Apps
    BY <1>1, <1>2, AppFacts DEF Stop
  <2>2. Append(inbox, Deactivate) \in Seq(Commands)
    BY <1>1 DEF RestOK, Commands
  <2>3. Marked("unsent") \in SUBSET AllMarks
    BY <1>1, MarkedFacts DEF AllMarks, Untold
  <2>4. inbox' \in Seq(Commands) /\ marks' \in SUBSET AllMarks /\ faults' \in 0 .. MaxFaults
    BY <1>1, <1>2, <2>2, <2>3, BoundsAssumption DEF Stop, RestOK, Fault
  <2>5. Keeps(s, s') /\ (up \/ s' = s) /\ UNCHANGED <<up, frame>>
    BY <1>1, <1>2 DEF Stop
  <2>6. QED BY <1>1, <2>1, <2>4, <2>5 DEF RestOK, Calm
<1>3. CASE PrepareRequest
  <2>1. Keeps(s, s')
    BY <1>1, <1>3, AddAllowedRangeFacts DEF PrepareRequest, Nets
  <2>2. marks' \in SUBSET AllMarks
    BY <1>1, <1>3, MarkedFacts DEF PrepareRequest, AllMarks, RestOK
  <2>3. QED BY <1>1, <1>3, <2>1, <2>2 DEF PrepareRequest, RestOK, Calm
<1>4. QED BY <1>2, <1>3

\* Where an outcome leaves the activation and the client (Daemon, backendFailure).
LEMMA ContinueFacts ==
  ASSUME RestOK, NEW x, NEW c \in Configs, NEW o, Good(x, c, o), Continue(o)
  PROVE  Keeps(x, s') /\ frame' \in Frames /\ app' \in Apps
<1>1. Keeps(x, s')
  BY DEF Good, Continue
<1>2. frame' \in Frames
  BY DEF Good, Continue, Frames
<1>3. app' \in Apps
  <2>1. app \in Apps
    BY DEF RestOK
  <2>2. QED BY <2>1, AppFacts DEF Continue
<1>4. QED BY <1>1, <1>2, <1>3

\* The daemon's steps.
LEMMA DaemonFacts ==
  ASSUME IInv, DaemonStep
  PROVE  RestOK' /\ Calm
<1>1. RestOK /\ Sound(s)
  BY DEF IInv
<1>2. CASE ReadActivate
  <2>1. inbox \in Seq(Commands) /\ inbox # <<>> /\ Head(inbox).type = "activate" /\ up
    BY <1>1, <1>2 DEF ReadActivate, RestOK
  <2>2. Head(inbox) \in Commands /\ Tail(inbox) \in Seq(Commands)
    BY <2>1
  <2>3. Head(inbox).c \in Configs
    BY <2>1, <2>2 DEF Commands, Deactivate
  <2>4. PICK o \in activate(s, Head(inbox).c) : Continue(o)
    BY <1>2 DEF ReadActivate
  <2>5. Good(s, Head(inbox).c, o)
    BY <1>1, <2>3, <2>4, ActivateGood
  <2>6. Keeps(s, s') /\ frame' \in Frames /\ app' \in Apps
    BY <1>1, <2>3, <2>4, <2>5, ContinueFacts
  <2>7. QED BY <1>1, <1>2, <2>1, <2>2, <2>6 DEF ReadActivate, RestOK, Calm
<1>3. CASE ReadDeactivate
  <2>1. Tail(inbox) \in Seq(Commands)
    BY <1>1, <1>3 DEF ReadDeactivate, RestOK
  <2>2. Keeps(s, s')
    BY <1>1, <1>3, DeactivateFacts DEF ReadDeactivate
  <2>3. QED BY <1>1, <1>3, <2>1, <2>2 DEF ReadDeactivate, RestOK, Calm
<1>4. CASE Resume
  <2>1. frame \in Frames /\ frame # NoFrame /\ frame.c \in Configs /\ up
    BY <1>1, <1>4 DEF Resume, RestOK, Frames
  <2>2. PICK o \in resume(s, frame) : Continue(o)
    BY <1>4 DEF Resume
  <2>3. Good(s, frame.c, o)
    BY <1>1, <2>1, <2>2, ResumeGood
  <2>4. Keeps(s, s') /\ frame' \in Frames /\ app' \in Apps
    BY <1>1, <2>1, <2>2, <2>3, ContinueFacts
  <2>5. QED BY <1>1, <1>4, <2>1, <2>4 DEF Resume, RestOK, Calm
<1>5. CASE CheckHandshake
  <2>1. app' \in Apps
    BY <1>1, <1>5, AppFacts DEF CheckHandshake, RestOK
  <2>2. Keeps(s, s')
    BY <1>1, <1>5, EndFacts DEF CheckHandshake
  <2>3. QED BY <1>1, <1>5, <2>1, <2>2 DEF CheckHandshake, RestOK, Calm
<1>6. CASE ProcessReaped
  <2>1. Keeps(s, s') /\ s'.fw = s.fw
    BY <1>1, <1>6, EndFacts DEF ProcessReaped
  <2>2. QED BY <1>1, <1>6, <2>1 DEF ProcessReaped, RestOK, Calm
<1>7. QED BY <1>2, <1>3, <1>4, <1>5, <1>6 DEF DaemonStep

\* The faults.
LEMMA FaultFacts ==
  ASSUME IInv, FaultStep
  PROVE  RestOK' /\ (Calm \/ Ends \/ Reboots)
<1>1. RestOK /\ Sound(s) /\ Keeps(s, s)
  BY KeepsSelf DEF IInv
<1>2. app \in Apps /\ Dropped \in Apps /\ NoApp \in Apps
  BY <1>1, AppFacts DEF RestOK
<1>3. Marked("crash") \in SUBSET AllMarks /\ Marked("died") \in SUBSET AllMarks
  BY <1>1, MarkedFacts DEF AllMarks, Untold
<1>4. Fault => faults' \in 0 .. MaxFaults
  BY <1>1, BoundsAssumption DEF Fault, RestOK
<1>5. NoFrame \in Frames /\ <<>> \in Seq(Commands)
  BY DEF Frames
<1>6. CASE ProcessDies
  <2>1. Keeps(s, s') /\ s'.fw = s.fw
    BY <1>1, <1>6, EndFacts DEF ProcessDies
  <2>2. app' \in Apps
    BY <1>2, <1>6 DEF ProcessDies
  <2>3. QED BY <1>1, <1>3, <1>4, <1>6, <2>1, <2>2 DEF ProcessDies, RestOK, Calm
<1>7. CASE ClientCrash
  <2>1. inbox' \in Seq(Commands)
    BY <1>1, <1>7, LostRestFacts DEF ClientCrash, RestOK
  <2>2. QED BY <1>1, <1>2, <1>3, <1>4, <1>7, <2>1 DEF ClientCrash, RestOK, Calm
<1>8. ASSUME NEW t, ServiceEnds(t) PROVE RestOK' /\ up /\ up' = FALSE /\ s' = t
  BY <1>1, <1>2, <1>3, <1>4, <1>5, <1>8 DEF ServiceEnds, RestOK
<1>9. CASE ServiceCrash
  BY <1>8, <1>9 DEF ServiceCrash, Ends
<1>10. CASE ServiceQuit
  BY <1>8, <1>10 DEF ServiceQuit, Ends
<1>11. CASE Reboot
  <2>1. RestOK'
    BY <1>1, <1>2, <1>4, <1>5, <1>11 DEF Reboot, RestOK
  <2>2. QED BY <1>11, <2>1 DEF Reboot, Reboots
<1>12. QED BY <1>6, <1>7, <1>9, <1>10, <1>11 DEF FaultStep
\* Every step of the service is of one of the five kinds.
LEMMA NextFacts ==
  ASSUME IInv, Next
  PROVE  RestOK' /\ (Calm \/ Toggles \/ Ends \/ Begins \/ Reboots)
<1>1. CASE ClientStep
  <2>1. CASE \E b \in BOOLEAN : RefreshKillSwitch(b)
    <3>1. PICK b \in BOOLEAN : RefreshKillSwitch(b)
      BY <2>1
    <3>2. marks' \in SUBSET AllMarks
      BY <3>1, MarkedFacts DEF RefreshKillSwitch, IInv, RestOK, AllMarks
    <3>3. QED BY <3>1, <3>2 DEF RefreshKillSwitch, IInv, RestOK, Toggles
  <2>2. QED BY <1>1, <2>1, StartFacts, TunnelFacts, StopFacts DEF ClientStep
<1>2. CASE DaemonStep
  BY <1>2, DaemonFacts
<1>3. CASE ServiceStart
  BY <1>3 DEF ServiceStart, IInv, RestOK, Begins
<1>4. CASE FaultStep
  BY <1>4, FaultFacts
<1>5. QED BY <1>1, <1>2, <1>3, <1>4 DEF Next

\* The state the service begins in.
LEMMA InitInv == Init => IInv
<1> SUFFICES ASSUME Init PROVE IInv
  OBVIOUS
<1>1. /\ s.fw = uninstall /\ s.ranges = {} /\ s.strict = FALSE /\ s.proc = "off"
      /\ s \in ServiceStates
  BY InstallFacts DEF Init, freshService, ServiceStates, NoneExcluded, Firewalls, Nets
<1>2. Sound(s) /\ Armed(s)
  BY <1>1, InstallFacts DEF Sound, Sealed, Armed
<1>3. RestOK
  <2>1. NoFrame \in Frames /\ NoApp \in Apps /\ <<>> \in Seq(Commands)
    BY DEF Frames, Apps, NoApp
  <2>2. QED BY <2>1, BoundsAssumption DEF Init, RestOK
<1>4. QED BY <1>2, <1>3 DEF IInv

\* The invariant is inductive.
LEMMA StepInv ==
  ASSUME IInv, [Next]_vars
  PROVE  IInv'
<1>1. CASE UNCHANGED vars
  BY <1>1 DEF vars, IInv, RestOK, Sound, Sealed, Armed
<1>2. CASE Next
  <2>1. RestOK' /\ (Calm \/ Toggles \/ Ends \/ Begins \/ Reboots)
    BY <1>2, NextFacts
  <2>2. Sound(s) /\ (up => Armed(s))
    BY DEF IInv
  <2>3. Sound(s') /\ (up' => Armed(s'))
    <3>1. CASE Calm
      BY <2>2, <3>1 DEF Calm, Keeps
    <3>2. CASE Toggles
      BY <2>2, <3>2, RefreshFacts DEF Toggles
    <3>3. CASE Ends
      <4>1. Sound(deactivate(s))
        BY <2>2, DeactivateFacts DEF Keeps
      <4>2. QED BY <2>2, <3>3, <4>1, EndFacts DEF Ends, Keeps
    <3>4. CASE Begins
      BY <2>2, <3>4, InitFacts DEF Begins
    <3>5. CASE Reboots
      BY <2>2, <3>5, EndFacts DEF Reboots
    <3>6. QED BY <2>1, <3>1, <3>2, <3>3, <3>4, <3>5
  <2>4. QED BY <2>1, <2>3 DEF IInv, Sound, Sealed, Armed
<1>3. QED BY <1>1, <1>2

\* The invariant holds in every state.
LEMMA Invariant == Spec => []IInv
BY InitInv, StepInv, PTL DEF Spec

-----------------------------------------------------------------------------
(***************************************************************************)
(* The state of the service keeps its types: counts of excluded addresses  *)
(* stay natural numbers, and the allowed networks stay servers, sites and  *)
(* the gateway (KillSwitch, Daemon and the client's calls).                *)
(***************************************************************************)
THEOREM ServiceTyped == Spec => []TypeOK
<1>1. IInv => TypeOK
  BY TypesAgree DEF IInv, Sound
<1>2. QED BY <1>1, Invariant, PTL

\* Rules that seal reject the traffic that would show the user's address or queries.
LEMMA SealedRejects ==
  ASSUME NEW fw \in Firewalls, fw.installed, Sealed(fw)
  PROVE  NoLeaks(fw) /\ (Rejected(fw, Ordinary) \/ RulesOf(fw) = "sites")
<1>1. "inet" \notin fw.allowNets /\ "lan" \notin fw.allowNets
  BY NamesAssumption, GatewayAssumption DEF Firewalls, Nets, Addresses
<1>2. \A a \in Accepting : a \in {1, 2, 4, 5, 7, 8, 10}
  BY Numbers DEF Accepting, Anchors, Rejecting
<1>3. {blockDNS, blockIPv6, blockAll} \subseteq Rejecting
  BY DEF Rejecting
<1>4. ASSUME NEW dns \in {"no", "other"} PROVE Rejected(fw, Outside(6, "inet", dns))
  <2> DEFINE p == Outside(6, "inet", dns)
  <2>1. Hits(fw, p, blockIPv6)
    BY DEF Hits, Matches, Outside, Packet, Sealed
  <2>2. \A a \in Accepting : Hits(fw, p, a) => blockIPv6 < a
    BY <1>2, Numbers DEF Hits, Matches, Outside, Packet
  <2>3. QED BY <1>3, <2>1, <2>2 DEF Rejected
<1>5. ASSUME NEW dst \in {"inet", "lan"}, NEW dns \in {"no", "other"},
             <<blockAll, 4>> \in fw.on, dst = "lan" => <<allowLAN, 4>> \notin fw.on
      PROVE  Rejected(fw, Outside(4, dst, dns))
  <2> DEFINE p == Outside(4, dst, dns)
  <2>1. Hits(fw, p, blockAll)
    BY <1>5 DEF Hits, Matches, Outside, Packet
  <2>2. \A a \in Accepting : ~Hits(fw, p, a)
    BY <1>1, <1>2, <1>5, Numbers DEF Hits, Matches, Outside, Packet
  <2>3. QED BY <1>3, <2>1, <2>2 DEF Rejected
<1>6. ASSUME NEW dst \in {"inet", "lan"}, <<blockDNS, 4>> \in fw.on
      PROVE  Rejected(fw, Outside(4, dst, "other"))
  <2> DEFINE p == Outside(4, dst, "other")
  <2>1. Hits(fw, p, blockDNS)
    BY <1>6 DEF Hits, Matches, Outside, Packet
  <2>2. \A a \in Accepting : Hits(fw, p, a) => blockDNS < a
    BY <1>2, Numbers DEF Hits, Matches, Outside, Packet
  <2>3. QED BY <1>3, <2>1, <2>2 DEF Rejected
<1>7. \A dst \in {"inet", "lan"} : Rejected(fw, Outside(4, dst, "other"))
  BY <1>5, <1>6 DEF Sealed
<1>8. NoLeaks(fw)
  BY <1>4, <1>7 DEF NoLeaks, Leaks
<1>9. Rejected(fw, Ordinary) \/ RulesOf(fw) = "sites"
  BY <1>5 DEF Ordinary, RulesOf
<1>10. QED BY <1>8, <1>9

(***************************************************************************)
(* In strict mode a running service rejects the packets of Leaks (IPv6 to  *)
(* the internet, queries to foreign resolvers; not IPv6 within the local   *)
(* network), in every state and after every interleaving of tunnels,       *)
(* daemon, crashes and restarts (KillSwitch::init, refresh,                *)
(* disableKillSwitch, enableKillSwitch; Daemon::deactivate;                *)
(* applyFirewallRules).                                                    *)
(***************************************************************************)
THEOREM StrictIsSealed == Spec => []StrictSealed
<1>1. IInv => StrictSealed
  BY SealedRejects, StateFacts DEF IInv, Sound, Armed, StrictSealed
<1>2. QED BY <1>1, Invariant, PTL

\* A step that keeps the invariant is one the policy allows.
LEMMA CalmAllowed ==
  ASSUME NEW x, NEW t, Sound(x), Armed(x), Keeps(x, t)
  PROVE  \/ RulesOf(t.fw) \in {"full", "sites"}
         \/ ~x.strict /\ RulesOf(t.fw) = "none"
BY DEF Keeps, Armed, RulesOf

(***************************************************************************)
(* The service with its daemon, tunnels and faults implements TrafficPolicy*)
(* : only letting go of a tunnel in soft mode, or leaving strict mode,     *)
(* opens the machine (killswitch.cpp with all of its callers).             *)
(***************************************************************************)
THEOREM ServiceImplementsPolicy == Spec => ImplementsPolicy
<1>1. Init => Policy!Init
  BY InstallFacts DEF Init, Policy!Init, freshService, RulesOf
<1>2. IInv /\ [Next]_vars => [Policy!Next]_(Policy!vars)
  <2> SUFFICES ASSUME IInv, [Next]_vars PROVE [Policy!Next]_(Policy!vars)
    OBVIOUS
  <2>1. CASE UNCHANGED vars
    BY <2>1 DEF vars, Policy!vars
  <2>2. CASE Next
    <3>1. Calm \/ Toggles \/ Ends \/ Begins \/ Reboots
      BY <2>2, NextFacts
    <3>2. Sound(s) /\ (up => Armed(s)) /\ up \in BOOLEAN /\ s.strict \in BOOLEAN
      BY StateFacts DEF IInv, RestOK, Sound
    <3>3. CASE Calm
      <4>1. s'.strict = s.strict /\ up' = up
        BY <3>3 DEF Calm, Keeps
      <4>2. CASE ~up
        BY <3>3, <4>1, <4>2 DEF Calm, Policy!vars
      <4>3. CASE up
        BY <3>2, <3>3, <4>1, <4>3, CalmAllowed
           DEF Calm, Policy!Next, Policy!Protect, Policy!Release
      <4>4. QED BY <3>2, <4>2, <4>3
    <3>4. CASE Toggles
      BY <3>2, <3>4, RefreshFacts DEF Toggles, Policy!Next, Policy!SetMode
    <3>5. CASE Ends
      <4>1. CASE s' = serviceGone(s)
        <5>1. s'.fw = s.fw /\ s'.strict = s.strict
          BY <3>2, <4>1, EndFacts DEF Keeps
        <5>2. QED BY <3>5, <5>1 DEF Ends, Policy!Next, Policy!Die
      <4>2. CASE s' = serviceGone(deactivate(s))
        <5>1. Sound(deactivate(s)) /\ deactivate(s).strict = s.strict
          BY <3>2, DeactivateFacts DEF Keeps
        <5>2. s'.fw = deactivate(s).fw /\ s'.strict = s.strict
          BY <4>2, <5>1, EndFacts DEF Keeps
        <5>3. \/ RulesOf(s'.fw) = RulesOf(s.fw)
              \/ RulesOf(s'.fw) = IF s.strict THEN "full" ELSE "none"
          BY <3>2, <3>5, <5>2, DeactivateFacts DEF Ends, Armed
        <5>4. QED BY <3>5, <5>2, <5>3 DEF Ends, Policy!Next, Policy!Die
      <4>3. QED BY <3>5, <4>1, <4>2 DEF Ends
    <3>6. CASE Begins
      BY <3>2, <3>6, InitFacts DEF Begins, Policy!Next, Policy!Start
    <3>7. CASE Reboots
      <4>1. s'.strict = s.strict /\ RulesOf(s'.fw) = "none"
        BY <3>2, <3>7, EndFacts, InstallFacts DEF Reboots, RulesOf
      <4>2. QED BY <3>7, <4>1 DEF Reboots, Policy!Next, Policy!Reboot
    <3>8. QED BY <3>1, <3>3, <3>4, <3>5, <3>6, <3>7
  <2>3. QED BY <2>1, <2>2
<1>3. QED BY <1>1, <1>2, Invariant, PTL DEF Spec, ImplementsPolicy, Policy!Spec
\* The policy itself keeps a running service in strict mode from being open.
THEOREM PolicyFailsClosed == Policy!Spec => []Policy!FailClosed
<1>1. Policy!Init => Policy!FailClosed
  BY DEF Policy!Init, Policy!FailClosed
<1>2. Policy!FailClosed /\ [Policy!Next]_(Policy!vars) => Policy!FailClosed'
  BY DEF Policy!FailClosed, Policy!Next, Policy!vars, Policy!Protect, Policy!Release,
         Policy!SetMode, Policy!Die, Policy!Start, Policy!Reboot
<1>3. QED BY <1>1, <1>2, PTL DEF Policy!Spec

=============================================================================
