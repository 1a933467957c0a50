----------------------- MODULE ServiceSession_proofs -----------------------
(***************************************************************************)
(* Proofs about the tunnels of the privileged service, for any servers,    *)
(* sites, options and number of faults: what is left when a tunnel is over,*)
(* and that the exclusion routes follow the connection.                    *)
(*                                                                         *)
(* They rest on three invariants, each proved from the ones before it:     *)
(*   Routed    the counts of excluded addresses against the route table    *)
(*   Session   what the daemon may hold and what may be unread, given the  *)
(*             phase of the client's object, as long as everybody told the *)
(*             daemon what it has to know (Clear)                          *)
(*   SoftOpen  in soft mode, who may have rules in the firewall            *)
(***************************************************************************)
EXTENDS Service_proofs, SequenceTheorems

-----------------------------------------------------------------------------
(***************************************************************************)
(* Short sequences.                                                        *)
(***************************************************************************)
\* Sequences that agree in length and elements are equal.
LEMMA ShortSeqs ==
  ASSUME NEW S, NEW q \in Seq(S), NEW a \in S, NEW b \in S, NEW c \in S
  PROVE  /\ Len(q) = 2 /\ q[1] = a /\ q[2] = b => q = <<a, b>>
         /\ Len(q) = 3 /\ q[1] = a /\ q[2] = b /\ q[3] = c => q = <<a, b, c>>
<1>1. ASSUME Len(q) = 2, q[1] = a, q[2] = b PROVE q = <<a, b>>
  <2> DEFINE r == <<a, b>>
  <2>1. r \in Seq(S) /\ Len(r) = 2 /\ r[1] = a /\ r[2] = b
    OBVIOUS
  <2>2. \A i \in 1 .. 2 : i = 1 \/ i = 2
    OBVIOUS
  <2> HIDE DEF r
  <2>3. \A i \in 1 .. Len(q) : q[i] = r[i]
    BY <1>1, <2>1, <2>2
  <2>4. q = r
    BY <1>1, <2>1, <2>3, SeqEqual
  <2>5. QED BY <2>4 DEF r
<1>2. ASSUME Len(q) = 3, q[1] = a, q[2] = b, q[3] = c PROVE q = <<a, b, c>>
  <2> DEFINE r == <<a, b, c>>
  <2>1. r \in Seq(S) /\ Len(r) = 3 /\ r[1] = a /\ r[2] = b /\ r[3] = c
    OBVIOUS
  <2>2. \A i \in 1 .. 3 : i = 1 \/ i = 2 \/ i = 3
    OBVIOUS
  <2> HIDE DEF r
  <2>3. \A i \in 1 .. Len(q) : q[i] = r[i]
    BY <1>2, <2>1, <2>2
  <2>4. q = r
    BY <1>2, <2>1, <2>3, SeqEqual
  <2>5. QED BY <2>4 DEF r
<1>3. QED BY <1>1, <1>2

\* Sending another command (Append, \o).
LEMMA SendFacts ==
  ASSUME NEW S, NEW a \in S, NEW b \in S, NEW c \in S
  PROVE  /\ Append(<<>>, a) = <<a>> /\ Append(<<a>>, b) = <<a, b>>
         /\ Append(<<a, b>>, c) = <<a, b, c>>
         /\ <<>> \o <<>> = <<>> /\ <<a>> \o <<>> = <<a>> /\ <<>> \o <<a>> = <<a>>
         /\ <<a>> \o <<b>> = <<a, b>>
<1>0. <<>> \in Seq(S) /\ <<a>> \in Seq(S) /\ <<b>> \in Seq(S) /\ <<a, b>> \in Seq(S)
  OBVIOUS
<1>1. Append(<<>>, a) = <<a>>
  BY <1>0, SeqEqual
<1>2. Append(<<a>>, b) = <<a, b>>
  <2> DEFINE r == Append(<<a>>, b)
  <2>1. r \in Seq(S) /\ Len(r) = 2 /\ r[1] = a /\ r[2] = b
    BY <1>0
  <2> HIDE DEF r
  <2>2. r = <<a, b>>
    BY <2>1, ShortSeqs
  <2>3. QED BY <2>2 DEF r
<1>3. Append(<<a, b>>, c) = <<a, b, c>>
  <2> DEFINE r == Append(<<a, b>>, c)
  <2>1. r \in Seq(S) /\ Len(r) = 3 /\ r[1] = a /\ r[2] = b /\ r[3] = c
    BY <1>0
  <2> HIDE DEF r
  <2>2. r = <<a, b, c>>
    BY <2>1, ShortSeqs
  <2>3. QED BY <2>2 DEF r
<1>4. <<>> \o <<>> = <<>> /\ <<a>> \o <<>> = <<a>> /\ <<>> \o <<a>> = <<a>>
  BY <1>0, ConcatEmptySeq
<1>5. <<a>> \o <<b>> = <<a, b>>
  <2> DEFINE r == <<a>> \o <<b>>
  <2>1. r \in Seq(S) /\ Len(r) = 2 /\ r[1] = a /\ r[2] = b
    BY <1>0
  <2> HIDE DEF r
  <2>2. r = <<a, b>>
    BY <2>1, ShortSeqs
  <2>3. QED BY <2>2 DEF r
<1>6. QED BY <1>1, <1>2, <1>3, <1>4, <1>5

\* Reading the next command (Head, Tail).
LEMMA ReadFacts ==
  ASSUME NEW a, NEW b, NEW c
  PROVE  /\ Head(<<a>>) = a /\ Head(<<a, b>>) = a /\ Head(<<a, b, c>>) = a
         /\ Tail(<<a>>) = <<>> /\ Tail(<<a, b>>) = <<b>> /\ Tail(<<a, b, c>>) = <<b, c>>
         /\ <<a>> # <<>> /\ <<a, b>> # <<>> /\ <<a, b, c>> # <<>>
OBVIOUS

-----------------------------------------------------------------------------
(***************************************************************************)
(* What the functions of the service leave alone.                          *)
(***************************************************************************)
SameDaemon(x, t) ==
  /\ t.proc = x.proc /\ t.monitor = x.monitor /\ t.conn = x.conn /\ t.date = x.date
  /\ t.excluded = x.excluded /\ t.routes = x.routes /\ t.resolvers = x.resolvers

SameKillSwitch(x, t) == t.fw = x.fw /\ t.ranges = x.ranges /\ t.strict = x.strict

\* The kill switch does not touch the daemon's part of the state (killswitch.cpp).
LEMMA KillSwitchAlone ==
  ASSUME NEW x \in ServiceStates, NEW r, NEW c, NEW b
  PROVE  /\ SameDaemon(x, disableKillSwitch(x)) /\ SameDaemon(x, disableAllTraffic(x))
         /\ SameDaemon(x, init(x)) /\ SameDaemon(x, refresh(x, b))
         /\ SameDaemon(x, addAllowedRange(x, r)) /\ SameDaemon(x, enableKillSwitch(x, c))
         /\ SameDaemon(x, applyFirewallRules(x, c)) /\ SameDaemon(x, armed(x, c))
<1>1. SameDaemon(x, disableKillSwitch(x)) /\ SameDaemon(x, disableAllTraffic(x))
  BY DEF ServiceStates, SameDaemon, disableKillSwitch, disableAllTraffic
<1>2. SameDaemon(x, init(x))
  BY <1>1 DEF init, SameDaemon
<1>3. SameDaemon(x, refresh(x, b))
  BY DEF ServiceStates, SameDaemon, refresh, disableKillSwitch, disableAllTraffic
<1>4. SameDaemon(x, addAllowedRange(x, r))
  BY DEF ServiceStates, SameDaemon, addAllowedRange, resetAllowedRange
<1>5. SameDaemon(x, enableKillSwitch(x, c)) /\ SameDaemon(x, applyFirewallRules(x, c))
  BY DEF ServiceStates, SameDaemon, enableKillSwitch, applyFirewallRules
<1>6. SameDaemon(x, armed(x, c))
  BY <1>5 DEF armed, SameDaemon
<1>7. QED BY <1>1, <1>2, <1>3, <1>4, <1>5, <1>6

\* The client's second stop does not either (OpenVpnProtocol, XrayProtocol::stop).
LEMMA StopAgainAlone ==
  ASSUME s \in ServiceStates
  PROVE  SameDaemon(s, stopAgain)
BY KillSwitchAlone DEF stopAgain, SameDaemon

\* The steps of the client, its crash and the start of the service leave the daemon alone.
LEMMA ClientAlone ==
  ASSUME IInv, ClientStep \/ ServiceStart \/ ClientCrash
  PROVE  SameDaemon(s, s') /\ UNCHANGED frame
<1>0. s \in ServiceStates /\ SameDaemon(s, s) /\ SameDaemon(s, stopAgain)
  BY StopAgainAlone DEF IInv, Sound, SameDaemon
<1>1. CASE StartTunnel
  <2>1. PICK c : StartWireguard(c) \/ StartOpenVpn(c) \/ StartXray(c)
    BY <1>1 DEF StartTunnel
  <2>2. UNCHANGED frame
    BY <2>1 DEF StartWireguard, StartOpenVpn, StartXray, New
  <2>3. CASE StartOpenVpn(c)
    <3>1. Sound(s) /\ Keeps(s, stopAgain)
      BY StopAgainFacts DEF IInv
    <3>2. Sound(stopAgain)
      BY <3>1 DEF Keeps
    <3>3. Sound(disableKillSwitch(stopAgain))
      BY <3>2, DisableKillSwitchFacts DEF Keeps
    <3>4. stopAgain \in ServiceStates /\ disableKillSwitch(stopAgain) \in ServiceStates
      BY <3>2, <3>3 DEF Sound
    <3>5. s' = addAllowedRange(disableKillSwitch(stopAgain), {c.host})
      BY <2>3 DEF StartOpenVpn
    <3>6. /\ SameDaemon(stopAgain, disableKillSwitch(stopAgain))
          /\ SameDaemon(disableKillSwitch(stopAgain), s')
      BY <3>4, <3>5, KillSwitchAlone
    <3>7. QED BY <1>0, <2>2, <3>6 DEF SameDaemon
  <2>4. QED BY <1>0, <2>1, <2>2, <2>3 DEF StartWireguard, StartXray
<1>2. CASE UpdateVpnGateway
  BY <1>0, <1>2, KillSwitchAlone DEF UpdateVpnGateway
<1>3. CASE SetupRouting
  <2>1. app.kind = "xray" /\ app.phase = "starting"
    BY <1>3 DEF SetupRouting
  <2>2. RestOK /\ Sound(s) /\ app.c \in Configs
    BY <2>1, AppFacts DEF IInv
  <2>3. Sound(armed(s, app.c))
    BY <2>2, EnableKillSwitchFacts DEF armed, Keeps
  <2>4. /\ SameDaemon(s, armed(s, app.c)) /\ SameDaemon(s, disableKillSwitch(s))
        /\ SameDaemon(armed(s, app.c), disableKillSwitch(armed(s, app.c)))
    BY <1>0, <2>3, KillSwitchAlone DEF Sound
  <2>5. QED BY <1>3, <2>4 DEF SetupRouting, SameDaemon
<1>4. CASE OpenVpnFinished \/ Tun2SocksFinished
  BY <1>0, <1>4, KillSwitchAlone DEF OpenVpnFinished, Tun2SocksFinished
<1>5. CASE Stop
  BY <1>0, <1>5 DEF Stop
<1>6. CASE PrepareRequest
  BY <1>0, <1>6, KillSwitchAlone DEF PrepareRequest
<1>7. CASE \E b \in BOOLEAN : RefreshKillSwitch(b)
  BY <1>0, <1>7, KillSwitchAlone DEF RefreshKillSwitch
<1>8. CASE ServiceStart
  BY <1>0, <1>8, KillSwitchAlone DEF ServiceStart
<1>9. CASE ClientCrash
  BY <1>0, <1>9 DEF ClientCrash
<1>10. QED
  BY <1>1, <1>2, <1>3, <1>4, <1>5, <1>6, <1>7, <1>8, <1>9 DEF ClientStep

-----------------------------------------------------------------------------
(***************************************************************************)
(* What the daemon's functions do to its part of the state.                *)
(***************************************************************************)
\* The routes that activate() and switchServer() add for a configuration.
Around(x, c) == addPeerRoute(addExclusionRoutes(x, ExcludedAddresses(c)), c)

\* Counts go up where the monitor takes the route or somebody counts on it already
\* (addExclusionRoutes, updatePeer).
LEMMA AroundEffect ==
  ASSUME NEW x, Sound(x), NEW c \in Configs
  PROVE  LET A == ExcludedAddresses(c)
             t == Around(x, c)
         IN  /\ Sound(t) /\ SameKillSwitch(x, t)
             /\ t.proc = x.proc /\ t.monitor = x.monitor /\ t.conn = x.conn
             /\ t.resolvers = x.resolvers /\ t.date = x.date
             /\ \A a \in Addresses : t.excluded[a] =
                  IF a \in A /\ (x.monitor \/ x.excluded[a] > 0) THEN x.excluded[a] + 1
                  ELSE x.excluded[a]
             /\ t.routes = x.routes \cup {a \in A : x.monitor /\ x.excluded[a] = 0}
                             \cup (IF x.monitor THEN {c.host} ELSE {})
<1> DEFINE A == ExcludedAddresses(c)
           e == [a \in Addresses |->
                   IF a \in A /\ (x.monitor \/ x.excluded[a] > 0) THEN x.excluded[a] + 1
                   ELSE x.excluded[a]]
           r == x.routes \cup {a \in A : x.monitor /\ x.excluded[a] = 0}
           y == addExclusionRoutes(x, A)
           t == Around(x, c)
<1>0. /\ x \in ServiceStates /\ x.excluded \in [Addresses -> Nat]
      /\ x.routes \in SUBSET Addresses /\ A \in SUBSET Addresses /\ c.host \in Addresses
  BY ConfigFacts DEF Sound, ServiceStates, Addresses
<1>1. e \in [Addresses -> Nat] /\ r \in SUBSET Addresses
  BY <1>0
<1>2. y = [x EXCEPT !.excluded = e, !.routes = r]
  BY <1>0 DEF addExclusionRoutes, ServiceStates
<1>3. t = addPeerRoute(y, c)
  BY DEF Around
<1>4. Sound(t)
  BY RoutesOfConfig DEF Keeps, Around
<1>5. \A a \in Addresses : e[a] =
         IF a \in A /\ (x.monitor \/ x.excluded[a] > 0) THEN x.excluded[a] + 1
         ELSE x.excluded[a]
  OBVIOUS
<1> HIDE DEF e, y, A, t
<1>6. /\ y.fw = x.fw /\ y.ranges = x.ranges /\ y.strict = x.strict
      /\ y.proc = x.proc /\ y.monitor = x.monitor /\ y.conn = x.conn
      /\ y.resolvers = x.resolvers /\ y.date = x.date /\ y.excluded = e /\ y.routes = r
      /\ y \in ServiceStates
  BY <1>0, <1>1, <1>2 DEF ServiceStates
<1>7. t = IF y.monitor THEN [y EXCEPT !.routes = @ \cup {c.host}] ELSE y
  BY <1>3 DEF addPeerRoute
<1>8. /\ t.fw = y.fw /\ t.ranges = y.ranges /\ t.strict = y.strict
      /\ t.proc = y.proc /\ t.monitor = y.monitor /\ t.conn = y.conn
      /\ t.resolvers = y.resolvers /\ t.date = y.date /\ t.excluded = y.excluded
      /\ t.routes = y.routes \cup (IF y.monitor THEN {c.host} ELSE {})
  BY <1>6, <1>7 DEF ServiceStates
<1>9. QED BY <1>4, <1>5, <1>6, <1>8 DEF SameKillSwitch, A, t

\* Nothing of the tunnel is left but routes nobody counts (Daemon::deactivate); the rules
\* go only if the process was still there.
LEMMA DeactivateEffect ==
  ASSUME NEW x \in ServiceStates
  PROVE  LET t == deactivate(x)
         IN  /\ t.conn = NoConfig /\ t.proc = "off" /\ ~t.monitor /\ ~t.resolvers
             /\ t.excluded = NoneExcluded /\ t.strict = x.strict
             /\ t.routes = x.routes \ {a \in Addresses :
                                         x.monitor /\ (x.excluded[a] > 0 \/ a = x.conn.host)}
             /\ x.proc = "off" => SameKillSwitch(x, t)
             /\ x.proc # "off" =>
                  t.fw = (IF x.strict THEN CloseRules(x.fw) ELSE uninstall) /\ t.ranges = {}
<1> DEFINE r == x.routes \ {a \in Addresses : x.monitor /\ (x.excluded[a] > 0 \/ a = x.conn.host)}
           u == [x EXCEPT !.routes = r, !.excluded = NoneExcluded, !.conn = NoConfig,
                          !.date = FALSE, !.resolvers = FALSE, !.monitor = FALSE]
           v == [u EXCEPT !.proc = "off"]
<1>1. deactivate(x) = IF x.proc = "off" THEN u ELSE disableKillSwitch(v)
  BY DeactivateWhole
<1> HIDE DEF r
<1>2. /\ u.conn = NoConfig /\ ~u.monitor /\ ~u.resolvers /\ u.excluded = NoneExcluded
      /\ u.proc = x.proc /\ u.strict = x.strict /\ u.fw = x.fw /\ u.ranges = x.ranges
      /\ u.routes = r
      /\ v.conn = NoConfig /\ ~v.monitor /\ ~v.resolvers /\ v.excluded = NoneExcluded
      /\ v.proc = "off" /\ v.strict = x.strict /\ v.fw = x.fw /\ v.routes = r
      /\ v = [x EXCEPT !.routes = r, !.excluded = NoneExcluded, !.conn = NoConfig,
                       !.date = FALSE, !.resolvers = FALSE, !.monitor = FALSE, !.proc = "off"]
  BY DEF ServiceStates
<1>3. LET w == disableKillSwitch(v)
      IN  /\ w.conn = v.conn /\ w.monitor = v.monitor /\ w.resolvers = v.resolvers
          /\ w.excluded = v.excluded /\ w.proc = v.proc /\ w.strict = v.strict
          /\ w.routes = v.routes /\ w.ranges = {}
          /\ w.fw = IF v.strict THEN CloseRules(v.fw) ELSE uninstall
  BY DEF ServiceStates, disableKillSwitch
<1> HIDE DEF u, v
<1>4. QED BY <1>1, <1>2, <1>3 DEF SameKillSwitch, r

-----------------------------------------------------------------------------
(***************************************************************************)
(* Routed: an address that is counted has its route, those of the          *)
(* connection are counted, and an activation that waits has counted its    *)
(* own, beside those of the connection it takes over (m_excludedAddrSet).  *)
(***************************************************************************)
Counted(x, A) == \A a \in A : x.excluded[a] > 0

Once(b) == IF b THEN 1 ELSE 0

Grounded(x) ==
  /\ \A a \in Addresses : x.excluded[a] > 0 => a \in x.routes
  /\ x.conn # NoConfig => x.monitor /\ Counted(x, ExcludedAddresses(x.conn))

Claimed(x, f) ==
  /\ f.at \in {"name", "setup", "peer"} => x.conn = NoConfig
  /\ f.at = "peer" /\ x.monitor => Counted(x, ExcludedAddresses(f.c))
  /\ f.at = "switch" =>
       /\ f.last = x.conn /\ x.conn # NoConfig
       /\ \A a \in Addresses : x.excluded[a] >= Once(a \in ExcludedAddresses(f.c))
                                                 + Once(a \in ExcludedAddresses(f.last))

Routed(x, f) == Grounded(x) /\ Claimed(x, f)

\* It is about the daemon's part of the state.
LEMMA RoutedSame ==
  ASSUME NEW x, NEW t, NEW f, SameDaemon(x, t), Routed(x, f)
  PROVE  Routed(t, f)
BY DEF SameDaemon, Routed, Grounded, Claimed, Counted

\* Nothing is claimed where no activation waits.
LEMMA RoutedDone ==
  ASSUME NEW x, NEW f, Grounded(x), f.at \in {"done", "failed", "none"}
  PROVE  Routed(x, f)
BY DEF Routed, Claimed

\* A failure leaves the state it failed in.
LEMMA RoutedFailed ==
  ASSUME NEW x, Grounded(x), NEW c, NEW o \in Failed(x, c)
  PROVE  Routed(o.s, o)
BY RoutedDone DEF Failed, Outcome

\* The routes of a configuration, added.
LEMMA AroundRouted ==
  ASSUME NEW x, Sound(x), Grounded(x), NEW c \in Configs
  PROVE  /\ Grounded(Around(x, c))
         /\ x.monitor => Counted(Around(x, c), ExcludedAddresses(c))
         /\ x.conn # NoConfig =>
              \A a \in Addresses :
                Around(x, c).excluded[a] >= Once(a \in ExcludedAddresses(c))
                                             + Once(a \in ExcludedAddresses(x.conn))
<1> DEFINE A == ExcludedAddresses(c)
           t == Around(x, c)
<1>1. /\ A \in SUBSET Addresses /\ x.excluded \in [Addresses -> Nat]
      /\ x.conn \in Configs \cup {NoConfig}
  BY ConfigFacts DEF Sound, ServiceStates
<1>2. x.conn # NoConfig => ExcludedAddresses(x.conn) \in SUBSET Addresses
  BY <1>1, ConfigFacts
<1>3. /\ t.monitor = x.monitor /\ t.conn = x.conn
      /\ \A a \in Addresses : t.excluded[a] =
           IF a \in A /\ (x.monitor \/ x.excluded[a] > 0) THEN x.excluded[a] + 1
           ELSE x.excluded[a]
      /\ t.routes = x.routes \cup {a \in A : x.monitor /\ x.excluded[a] = 0}
                      \cup (IF x.monitor THEN {c.host} ELSE {})
  BY AroundEffect
<1> HIDE DEF A, t
<1>4. \A a \in Addresses : x.excluded[a] \in Nat
  BY <1>1
<1>5. \A a \in Addresses : t.excluded[a] > 0 => a \in t.routes
  BY <1>1, <1>3, <1>4 DEF Grounded
<1>6. x.monitor => Counted(t, A)
  BY <1>1, <1>3, <1>4 DEF Counted
<1>7. x.conn # NoConfig => x.monitor /\ Counted(x, ExcludedAddresses(x.conn))
  BY DEF Grounded
<1>8. t.conn # NoConfig => t.monitor /\ Counted(t, ExcludedAddresses(t.conn))
  BY <1>2, <1>3, <1>4, <1>7 DEF Counted
<1>9. x.conn # NoConfig =>
        \A a \in Addresses :
          t.excluded[a] >= Once(a \in A) + Once(a \in ExcludedAddresses(x.conn))
  BY <1>2, <1>3, <1>4, <1>7 DEF Counted, Once
<1>10. QED BY <1>5, <1>6, <1>8, <1>9 DEF Grounded, A, t

\* From the interface to the peer's command (Daemon::activate).
LEMMA BringUpRouted ==
  ASSUME NEW x, Sound(x), Grounded(x), x.conn = NoConfig, NEW c \in Configs,
         NEW o \in bringUp(x, c)
  PROVE  Routed(o.s, o)
<1>1. o \in Failed(x, c) \/ o = Outcome(Around(x, c), "peer", c, NoConfig)
  BY DEF bringUp, Around
<1>2. /\ Grounded(Around(x, c)) /\ Around(x, c).conn = NoConfig
      /\ Around(x, c).monitor => Counted(Around(x, c), ExcludedAddresses(c))
  BY AroundRouted, AroundEffect
<1>3. CASE o = Outcome(Around(x, c), "peer", c, NoConfig)
  <2>1. o.s = Around(x, c) /\ o.at = "peer" /\ o.c = c
    BY <1>3 DEF Outcome
  <2>2. QED BY <1>2, <2>1 DEF Routed, Claimed
<1>4. QED BY <1>1, <1>3, RoutedFailed

\* The start of the process or its skipping (addInterface).
LEMMA ActivateOffRouted ==
  ASSUME NEW x, Sound(x), Grounded(x), x.conn = NoConfig, NEW c \in Configs,
         NEW o \in activateOff(x, c)
  PROVE  Routed(o.s, o)
<1> DEFINE t == [x EXCEPT !.proc = "running"]
<1>1. o \in bringUp(x, c) \/ o \in Failed(x, c) \/ o = Outcome(t, "name", c, NoConfig)
  BY DEF activateOff, addInterface
<1>2. t.excluded = x.excluded /\ t.routes = x.routes /\ t.conn = x.conn /\ t.monitor = x.monitor
  BY DEF Sound, ServiceStates
<1> HIDE DEF t
<1>3. Grounded(t) /\ t.conn = NoConfig
  BY <1>2 DEF Grounded, Counted
<1>4. CASE o = Outcome(t, "name", c, NoConfig)
  <2>1. o.s = t /\ o.at = "name"
    BY <1>4 DEF Outcome
  <2>2. QED BY <1>3, <2>1 DEF Routed, Claimed
<1>5. QED BY <1>1, <1>4, BringUpRouted, RoutedFailed

\* Nothing is counted after a deactivation.
LEMMA DeactivateRouted ==
  ASSUME NEW x \in ServiceStates
  PROVE  Grounded(deactivate(x)) /\ deactivate(x).conn = NoConfig
<1>1. deactivate(x).excluded = NoneExcluded /\ deactivate(x).conn = NoConfig
  BY DeactivateEffect
<1>2. QED BY <1>1 DEF Grounded, NoneExcluded

\* The first part of an activation (Daemon::activate, switchServer).
LEMMA ActivateRouted ==
  ASSUME NEW x, Sound(x), Grounded(x), NEW c \in Configs, NEW o \in activate(x, c)
  PROVE  Routed(o.s, o)
<1>1. \/ x.conn = NoConfig /\ o \in activateOff(x, c)
      \/ x.conn # NoConfig /\ o = Outcome(Around(x, c), "switch", c, x.conn)
      \/ o \in Failed(deactivate(x), c)
      \/ o \in activateOff(deactivate(x), c)
  BY ActivateBegins DEF Around, Sound
<1>2. /\ Sound(deactivate(x)) /\ Grounded(deactivate(x))
      /\ deactivate(x).conn = NoConfig
  BY DeactivateFacts, DeactivateRouted DEF Keeps, Sound
<1>3. CASE x.conn # NoConfig /\ o = Outcome(Around(x, c), "switch", c, x.conn)
  <2>1. o.s = Around(x, c) /\ o.at = "switch" /\ o.c = c /\ o.last = x.conn
    BY <1>3 DEF Outcome
  <2>2. /\ Grounded(o.s) /\ o.s.conn = x.conn
        /\ \A a \in Addresses : o.s.excluded[a] >= Once(a \in ExcludedAddresses(c))
                                                   + Once(a \in ExcludedAddresses(x.conn))
    BY <1>3, <2>1, AroundRouted, AroundEffect
  <2>3. QED BY <1>3, <2>1, <2>2 DEF Routed, Claimed
<1>4. QED BY <1>1, <1>2, <1>3, ActivateOffRouted, RoutedFailed

\* The tunnel's name and the answer to the set-up command (addInterface's end).
LEMMA SetupRouted ==
  ASSUME NEW x, Sound(x), Grounded(x), x.conn = NoConfig, NEW c \in Configs,
         NEW o \in nameReady(x, c) \cup setupReply(x, c)
  PROVE  Routed(o.s, o)
<1>1. CASE o \in nameReady(x, c)
  <2> DEFINE k == [x EXCEPT !.proc = "killed"]
             n == [x EXCEPT !.monitor = TRUE]
  <2>1. o \in Failed(x, c) \/ o \in Failed(k, c) \/ o = Outcome(n, "setup", c, NoConfig)
    BY <1>1 DEF nameReady
  <2>2. /\ k.excluded = x.excluded /\ k.routes = x.routes /\ k.conn = x.conn
        /\ n.excluded = x.excluded /\ n.routes = x.routes /\ n.conn = x.conn
    BY DEF Sound, ServiceStates
  <2> HIDE DEF k, n
  <2>3. Grounded(k) /\ Grounded(n) /\ n.conn = NoConfig
    BY <2>2 DEF Grounded, Counted
  <2>4. CASE o = Outcome(n, "setup", c, NoConfig)
    <3>1. o.s = n /\ o.at = "setup"
      BY <2>4 DEF Outcome
    <3>2. QED BY <2>3, <3>1 DEF Routed, Claimed
  <2>5. QED BY <2>1, <2>3, <2>4, RoutedFailed
<1>2. CASE o \in setupReply(x, c)
  <2> DEFINE y == IF c.ks THEN applyFirewallRules(x, c) ELSE x
  <2>1. o \in Failed(x, c) \/ o \in bringUp(y, c)
    BY <1>2 DEF setupReply
  <2>2. Sound(y) /\ SameDaemon(x, y)
    BY ApplyFirewallRulesFacts, KillSwitchAlone DEF Keeps, SameDaemon, Sound
  <2> HIDE DEF y
  <2>3. Grounded(y) /\ y.conn = NoConfig
    BY <2>2 DEF SameDaemon, Grounded, Counted
  <2>4. QED BY <2>1, <2>2, <2>3, BringUpRouted, RoutedFailed
<1>3. QED BY <1>1, <1>2

\* The answer to the peer's command, and the rest of the activation.
LEMMA PeerRouted ==
  ASSUME NEW x, Sound(x), Grounded(x), NEW c \in Configs,
         x.monitor => Counted(x, ExcludedAddresses(c)), x.conn = NoConfig,
         NEW o \in peerReply(x, c)
  PROVE  Routed(o.s, o)
<1> DEFINE t == [x EXCEPT !.resolvers = TRUE]
           u == [t EXCEPT !.conn = c, !.date = FALSE]
<1>1. \/ o \in Failed(x, c) \/ o \in Failed(t, c)
      \/ x.monitor /\ o = Outcome(u, "done", c, NoConfig)
  BY DEF peerReply
<1>2. /\ t.excluded = x.excluded /\ t.routes = x.routes /\ t.conn = x.conn
      /\ u.excluded = x.excluded /\ u.routes = x.routes /\ u.conn = c /\ u.monitor = x.monitor
  BY DEF Sound, ServiceStates
<1> HIDE DEF t, u
<1>3. Grounded(t) /\ (x.monitor => Grounded(u))
  BY <1>2 DEF Grounded, Counted
<1>4. CASE x.monitor /\ o = Outcome(u, "done", c, NoConfig)
  <2>1. o.s = u /\ o.at = "done"
    BY <1>4 DEF Outcome
  <2>2. QED BY <1>3, <1>4, <2>1, RoutedDone
<1>5. QED BY <1>1, <1>3, <1>4, RoutedFailed

\* The answer to a server switch: the routes of the last server go where nobody else counts
\* on them.
LEMMA SwitchRouted ==
  ASSUME NEW x, Sound(x), NEW f, f.at = "switch", f.c \in Configs, Routed(x, f),
         NEW o \in switchReply(x, f.c, f.last)
  PROVE  Routed(o.s, o)
<1> DEFINE c == f.c
           A == ExcludedAddresses(f.last)
           B == A \ Ranges
           d == delExclusionRoutes(x, A)
           t == [d EXCEPT !.conn = c, !.date = FALSE, !.resolvers = FALSE]
           u == [t EXCEPT !.resolvers = TRUE]
           v == [t EXCEPT !.date = x.date]
<1>0. /\ x \in ServiceStates /\ x.excluded \in [Addresses -> Nat]
      /\ x.monitor /\ A \in SUBSET Addresses /\ ExcludedAddresses(c) \in SUBSET Addresses
      /\ \A a \in Addresses : x.excluded[a] >= Once(a \in ExcludedAddresses(c)) + Once(a \in A)
  BY ConfigFacts DEF Sound, ServiceStates, Routed, Grounded, Claimed
<1>1. /\ \A a \in Addresses : d.excluded[a] =
           IF a \in B THEN (IF x.excluded[a] > 1 THEN x.excluded[a] - 1 ELSE 0)
           ELSE x.excluded[a]
      /\ d.routes = x.routes \ {a \in B : x.monitor /\ x.excluded[a] <= 1}
      /\ d.monitor = x.monitor
  BY <1>0 DEF delExclusionRoutes, ServiceStates
<1>2. d \in ServiceStates
  BY <1>0, RouteFacts DEF Keeps, Sound
<1>3. o \in Failed(x, c) \/ o \in Failed(v, c) \/ o = Outcome(u, "done", c, NoConfig)
  BY DEF switchReply
<1> HIDE DEF A, d
<1>4. /\ u.excluded = d.excluded /\ u.routes = d.routes /\ u.conn = c /\ u.monitor = d.monitor
      /\ v.excluded = d.excluded /\ v.routes = d.routes /\ v.conn = c /\ v.monitor = d.monitor
  BY <1>2 DEF ServiceStates
<1> HIDE DEF t, u, v
<1>5. \A a \in Addresses : x.excluded[a] \in Nat
  BY <1>0
<1>6. \A a \in Addresses : d.excluded[a] > 0 => a \in d.routes
  BY <1>1, <1>5 DEF Routed, Grounded
<1>7. Counted(d, ExcludedAddresses(c))
  BY <1>0, <1>1, <1>5 DEF Counted, Once
<1>8. Grounded(u) /\ Grounded(v) /\ Grounded(x)
  BY <1>0, <1>1, <1>4, <1>6, <1>7 DEF Grounded, Counted, Routed
<1>9. CASE o = Outcome(u, "done", c, NoConfig)
  <2>1. o.s = u /\ o.at = "done"
    BY <1>9 DEF Outcome
  <2>2. QED BY <1>8, <2>1, RoutedDone
<1>10. QED BY <1>3, <1>8, <1>9, RoutedFailed

\* The activation that waits goes on.
LEMMA ResumeRouted ==
  ASSUME NEW x, Sound(x), NEW f \in Frames, f # NoFrame, Routed(x, f), NEW o \in resume(x, f)
  PROVE  Routed(o.s, o)
<1>1. f.at \in {"name", "setup", "peer", "switch"} /\ f.c \in Configs
  BY DEF Frames
<1>2. CASE f.at \in {"name", "setup"}
  BY <1>1, <1>2, SetupRouted DEF resume, Routed, Claimed
<1>3. CASE f.at = "peer"
  BY <1>1, <1>3, PeerRouted DEF resume, Routed, Claimed
<1>4. CASE f.at = "switch"
  BY <1>1, <1>4, SwitchRouted DEF resume
<1>5. QED BY <1>1, <1>2, <1>3, <1>4

\* The outcome of a part of an activation is what the service goes on with.
LEMMA ContinueRouted ==
  ASSUME NEW o, Routed(o.s, o), Continue(o)
  PROVE  Routed(s', frame')
<1>1. s' = o.s
  BY DEF Continue
<1>2. CASE o.at \in {"done", "failed"}
  <2>1. frame' = NoFrame
    BY <1>2 DEF Continue
  <2>2. QED BY <1>1, <2>1, RoutedDone DEF Routed, NoFrame
<1>3. CASE o.at \notin {"done", "failed"}
  <2>1. frame'.at = o.at /\ frame'.c = o.c /\ frame'.last = o.last
    BY <1>3 DEF Continue
  <2>2. QED BY <1>1, <2>1 DEF Routed, Claimed
<1>4. QED BY <1>2, <1>3

\* What the ends of the process, of the service and of the machine leave of the daemon.
LEMMA EndEffect ==
  ASSUME NEW x \in ServiceStates
  PROVE  /\ LET t == processGone(x)
            IN  /\ SameKillSwitch(x, t) /\ t.monitor = x.monitor /\ t.conn = x.conn
                /\ t.excluded = x.excluded /\ t.routes = x.routes /\ t.proc = "off"
                /\ t.resolvers = x.resolvers
         /\ LET t == checkHandshake(x)
            IN  /\ SameKillSwitch(x, t) /\ t.monitor = x.monitor /\ t.conn = x.conn
                /\ t.excluded = x.excluded /\ t.routes = x.routes /\ t.proc = x.proc
                /\ t.resolvers = x.resolvers
         /\ serviceGone(x).conn = NoConfig /\ serviceGone(x).excluded = NoneExcluded
         /\ LET t == rebooted(x)
            IN  /\ t.conn = NoConfig /\ t.proc = "off" /\ ~t.monitor /\ ~t.resolvers
                /\ t.excluded = NoneExcluded /\ t.routes = {} /\ t.fw = uninstall
<1>1. /\ serviceGone(x).conn = NoConfig /\ serviceGone(x).excluded = NoneExcluded
      /\ serviceGone(x).proc = "off" /\ ~serviceGone(x).monitor /\ ~serviceGone(x).resolvers
  BY DEF ServiceStates, serviceGone
<1>2. LET t == rebooted(x)
      IN  /\ t.conn = NoConfig /\ t.proc = "off" /\ ~t.monitor /\ ~t.resolvers
          /\ t.excluded = NoneExcluded /\ t.routes = {} /\ t.fw = uninstall
  BY DEF ServiceStates, serviceGone, rebooted
<1>3. QED BY <1>1, <1>2 DEF ServiceStates, processGone, checkHandshake, SameKillSwitch

\* Every step keeps the counts and the routes together.
LEMMA RoutedStep ==
  ASSUME IInv, Routed(s, frame), [Next]_vars
  PROVE  Routed(s', frame')
<1>0. Sound(s) /\ s \in ServiceStates /\ frame \in Frames /\ Grounded(s) /\ inbox \in Seq(Commands)
  BY DEF IInv, RestOK, Sound, Routed
<1>1. CASE UNCHANGED vars
  BY <1>1 DEF vars
<1>2. CASE ClientStep \/ ServiceStart \/ ClientCrash
  BY <1>2, ClientAlone, RoutedSame
<1>3. CASE ReadActivate
  <2>1. Head(inbox) \in Commands /\ Head(inbox).type = "activate"
    BY <1>0, <1>3 DEF ReadActivate
  <2>2. Head(inbox).c \in Configs
    BY <2>1 DEF Commands, Deactivate
  <2>3. PICK o \in activate(s, Head(inbox).c) : Continue(o)
    BY <1>3 DEF ReadActivate
  <2>4. QED BY <1>0, <2>2, <2>3, ActivateRouted, ContinueRouted
<1>4. CASE ReadDeactivate
  <2>1. s' = deactivate(s) /\ frame' = NoFrame
    BY <1>4 DEF ReadDeactivate
  <2>2. QED BY <1>0, <2>1, DeactivateRouted, RoutedDone DEF NoFrame
<1>5. CASE Resume
  <2>1. PICK o \in resume(s, frame) : Continue(o)
    BY <1>5 DEF Resume
  <2>2. QED BY <1>0, <1>5, <2>1, ResumeRouted, ContinueRouted DEF Resume
<1>6. CASE CheckHandshake \/ ProcessReaped \/ ProcessDies
  <2>1. /\ s'.monitor = s.monitor /\ s'.conn = s.conn /\ s'.excluded = s.excluded
        /\ s'.routes = s.routes /\ UNCHANGED frame
    BY <1>0, <1>6, EndEffect DEF CheckHandshake, ProcessReaped, ProcessDies
  <2>2. QED BY <2>1 DEF Routed, Grounded, Claimed, Counted
<1>7. CASE ServiceCrash \/ ServiceQuit \/ Reboot
  <2>1. deactivate(s) \in ServiceStates
    BY <1>0, DeactivateFacts DEF Keeps, Sound
  <2>2. s'.conn = NoConfig /\ s'.excluded = NoneExcluded /\ frame' = NoFrame
    BY <1>0, <1>7, <2>1, EndEffect DEF ServiceCrash, ServiceQuit, ServiceEnds, Reboot
  <2>3. Grounded(s')
    BY <2>2 DEF Grounded, NoneExcluded
  <2>4. QED BY <2>2, <2>3, RoutedDone DEF NoFrame
<1>8. QED BY <1>1, <1>2, <1>3, <1>4, <1>5, <1>6, <1>7 DEF Next, DaemonStep, FaultStep

\* Counts and routes agree in every state.
LEMMA RoutedAlways == Spec => []Routed(s, frame)
<1>1. Init => Routed(s, frame)
  BY DEF Init, freshService, NoFrame, NoneExcluded, Routed, Grounded, Claimed, Counted
<1>2. IInv /\ Routed(s, frame) /\ [Next]_vars => Routed(s, frame)'
  BY RoutedStep
<1>3. QED BY <1>1, <1>2, Invariant, PTL DEF Spec

-----------------------------------------------------------------------------
(***************************************************************************)
(* Session: as long as everybody told the daemon what it has to know, it   *)
(* is where the client's object and the unread commands say.               *)
(***************************************************************************)
Clear == marks \cap Untold = {}

\* Every route is counted, once, and is the connection's if there is one.
Exact(x) ==
  /\ \A a \in Addresses : x.excluded[a] = Once(a \in x.routes)
  /\ ~x.monitor => x.routes = {}
  /\ x.conn # NoConfig => x.monitor /\ x.routes = ExcludedAddresses(x.conn)

\* How far an activation that waits has come.
Waits(x, f) ==
  /\ f.at # "switch"
  /\ f.at \in {"name", "setup", "peer"} => x.conn = NoConfig
  /\ f.at = "name" => ~x.monitor
  /\ f.at = "setup" => x.monitor /\ x.routes = {}
  /\ f.at = "peer" => x.monitor /\ x.routes = ExcludedAddresses(f.c)

Idle(x) ==
  /\ x.conn = NoConfig /\ x.proc = "off" /\ ~x.monitor /\ ~x.resolvers
  /\ x.excluded = NoneExcluded /\ x.routes = {}

\* No WireGuard tunnel; at most the last words of the one before are unread.
Resting ==
  /\ frame = NoFrame /\ DaemonIdle /\ inbox \in {<<>>, <<Deactivate>>}
  /\ app.kind # "wg" \/ app.phase = "off"

\* A WireGuard tunnel is asked for ...
Asked ==
  /\ frame = NoFrame /\ DaemonIdle /\ app.kind = "wg" /\ app.phase = "starting"
  /\ inbox \in {<<Activate(app.c)>>, <<Deactivate, Activate(app.c)>>}

\* ... and given up before the daemon has read of it.
Recalled ==
  /\ frame = NoFrame /\ DaemonIdle /\ app.kind = "wg" /\ app.phase = "off"
  /\ \E c \in Configs :
       inbox \in {<<Activate(c), Deactivate>>, <<Deactivate, Activate(c), Deactivate>>}

\* The activation of the tunnel waits.
Working ==
  /\ frame # NoFrame /\ frame.c = app.c /\ inbox = <<>>
  /\ app.kind = "wg" /\ app.phase = "starting"

\* The tunnel is given up; the daemon has yet to read it.
Leaving == app.kind = "wg" /\ app.phase = "off" /\ inbox = <<Deactivate>>

\* The activation is over, well or not, and the client still holds the tunnel.
Held ==
  /\ frame = NoFrame /\ inbox = <<>> /\ app.kind = "wg" /\ app.phase # "off"
  /\ s.conn \in {NoConfig, app.c}
  /\ app.phase \in {"up", "dropped"} => s.conn = app.c

Shape == Resting \/ Asked \/ Recalled \/ Working \/ Leaving \/ Held

\* A service that is down was never disturbed: the machine was rebooted.
DownFresh == ~up => app = NoApp /\ frame = NoFrame /\ inbox = <<>> /\ s.fw = uninstall

Session == Clear => Shape /\ Exact(s) /\ Waits(s, frame) /\ DownFresh

-----------------------------------------------------------------------------
\* All of it is about the daemon's part of the state.
LEMMA ExactSame ==
  ASSUME NEW x, NEW t, NEW f, SameDaemon(x, t)
  PROVE  /\ Exact(x) => Exact(t)
         /\ Waits(x, f) => Waits(t, f)
         /\ Idle(x) => Idle(t)
BY DEF SameDaemon, Exact, Waits, Idle

\* The daemon that holds nothing, in the two ways it is written.
LEMMA IdleAgree == DaemonIdle <=> Idle(s)
BY DEF DaemonIdle, Idle

\* Holding nothing is exact.
LEMMA IdleExact ==
  ASSUME NEW x, Idle(x)
  PROVE  Exact(x) /\ Waits(x, NoFrame)
BY DEF Idle, Exact, Waits, NoFrame, NoneExcluded, Once

\* A deactivation leaves nothing (Daemon::deactivate with its route monitor).
LEMMA DeactivateIdle ==
  ASSUME NEW x \in ServiceStates, Exact(x)
  PROVE  Idle(deactivate(x))
<1>1. x.routes \in SUBSET Addresses
  BY DEF ServiceStates
<1>2. \A a \in x.routes : x.monitor /\ x.excluded[a] > 0
  BY <1>1 DEF Exact, Once
<1>3. x.routes \ {a \in Addresses : x.monitor /\ (x.excluded[a] > 0 \/ a = x.conn.host)} = {}
  BY <1>1, <1>2
<1>4. deactivate(x).routes = {}
  BY <1>3, DeactivateEffect
<1>5. QED BY <1>4, DeactivateEffect DEF Idle

(***************************************************************************)
(* The parts of an activation that begins with an idle daemon.             *)
(***************************************************************************)
\* Where an outcome leaves a fresh activation.
Fresh(o, c) ==
  /\ Exact(o.s) /\ Waits(o.s, o) /\ o.c = c
  /\ o.at \in {"name", "setup", "peer", "done", "failed"}
  /\ o.at = "failed" => o.s.conn = NoConfig
  /\ o.at = "done" => o.s.conn = c

\* A failure leaves the state it failed in.
LEMMA FailedFresh ==
  ASSUME NEW x, Exact(x), x.conn = NoConfig, NEW c, NEW o \in Failed(x, c)
  PROVE  Fresh(o, c)
BY DEF Failed, Outcome, Fresh, Waits

\* The process is started (Daemon::activate, addInterface).
LEMMA ActivateFresh ==
  ASSUME NEW x \in ServiceStates, Idle(x), NEW c \in Configs, NEW o \in activate(x, c)
  PROVE  /\ Fresh(o, c) /\ SameKillSwitch(x, o.s)
         /\ o.at \in {"name", "failed"}
<1> DEFINE t == [x EXCEPT !.proc = "running"]
<1>1. o \in Failed(x, c) \/ o = Outcome(t, "name", c, NoConfig)
  BY DEF activate, activateOff, addInterface, Idle
<1>2. /\ t.conn = x.conn /\ t.monitor = x.monitor /\ t.excluded = x.excluded
      /\ t.routes = x.routes /\ SameKillSwitch(x, t)
  BY DEF ServiceStates, SameKillSwitch
<1> HIDE DEF t
<1>3. Exact(x) /\ Exact(t) /\ t.conn = NoConfig /\ ~t.monitor
  BY <1>2, IdleExact DEF Exact, Idle
<1>4. CASE o \in Failed(x, c)
  <2>1. o.s = x /\ o.at = "failed"
    BY <1>4 DEF Failed, Outcome
  <2>2. QED BY <1>3, <1>4, <2>1, FailedFresh DEF Idle, SameKillSwitch
<1>5. CASE o = Outcome(t, "name", c, NoConfig)
  <2>1. o.s = t /\ o.at = "name" /\ o.c = c
    BY <1>5 DEF Outcome
  <2>2. QED BY <1>2, <1>3, <2>1 DEF Fresh, Waits
<1>6. QED BY <1>1, <1>4, <1>5

\* The tunnel's name (waitForTunnelName).
LEMMA NameFresh ==
  ASSUME NEW x \in ServiceStates, Exact(x), NEW f, Waits(x, f), f.at = "name",
         NEW c, NEW o \in nameReady(x, c)
  PROVE  Fresh(o, c) /\ SameKillSwitch(x, o.s) /\ o.at \in {"setup", "failed"}
<1> DEFINE k == [x EXCEPT !.proc = "killed"]
           n == [x EXCEPT !.monitor = TRUE]
<1>1. o \in Failed(x, c) \/ o \in Failed(k, c) \/ o = Outcome(n, "setup", c, NoConfig)
  BY DEF nameReady
<1>2. /\ k.conn = x.conn /\ k.monitor = x.monitor /\ k.excluded = x.excluded
      /\ k.routes = x.routes /\ SameKillSwitch(x, k)
      /\ n.conn = x.conn /\ n.monitor = TRUE /\ n.excluded = x.excluded
      /\ n.routes = x.routes /\ SameKillSwitch(x, n)
  BY DEF ServiceStates, SameKillSwitch
<1> HIDE DEF k, n
<1>3. /\ x.conn = NoConfig /\ x.routes = {} /\ Exact(k) /\ k.conn = NoConfig /\ Exact(n)
      /\ n.conn = NoConfig /\ n.routes = {} /\ n.monitor
  BY <1>2 DEF Exact, Waits
<1>4. CASE o \in Failed(x, c) \/ o \in Failed(k, c)
  <2>1. (o.s = x \/ o.s = k) /\ o.at = "failed"
    BY <1>4 DEF Failed, Outcome
  <2>2. QED BY <1>2, <1>3, <1>4, <2>1, FailedFresh DEF SameKillSwitch
<1>5. CASE o = Outcome(n, "setup", c, NoConfig)
  <2>1. o.s = n /\ o.at = "setup" /\ o.c = c
    BY <1>5 DEF Outcome
  <2>2. QED BY <1>2, <1>3, <2>1 DEF Fresh, Waits
<1>6. QED BY <1>1, <1>4, <1>5

\* The answer to the set-up command, and the firewall (addInterface's end, activate).
LEMMA SetupFresh ==
  ASSUME NEW x, Sound(x), Exact(x), NEW f, Waits(x, f), f.at = "setup",
         NEW c \in Configs, NEW o \in setupReply(x, c)
  PROVE  /\ Fresh(o, c) /\ o.at \in {"peer", "failed"} /\ o.s.proc = x.proc
         /\ \/ SameKillSwitch(x, o.s) /\ (o.at = "peer" => ~c.ks)
            \/ c.ks /\ x.proc = "running" /\ SameKillSwitch(applyFirewallRules(x, c), o.s)
<1> DEFINE y == IF c.ks THEN applyFirewallRules(x, c) ELSE x
           r == Around(y, c)
           A == ExcludedAddresses(c)
<1>1. \/ o \in Failed(x, c)
      \/ x.proc = "running" /\ o \in Failed(y, c)
      \/ x.proc = "running" /\ o = Outcome(r, "peer", c, NoConfig)
  BY DEF setupReply, bringUp, Around
<1>2. Sound(y) /\ SameDaemon(x, y)
  BY ApplyFirewallRulesFacts, KillSwitchAlone DEF Keeps, SameDaemon, Sound
<1>3. IF c.ks THEN y = applyFirewallRules(x, c) ELSE y = x
  OBVIOUS
<1> HIDE DEF y
<1>4. /\ y.conn = NoConfig /\ y.monitor /\ y.routes = {} /\ Exact(y) /\ y.proc = x.proc
      /\ x.conn = NoConfig
  BY <1>2, ExactSame DEF Waits, SameDaemon
<1>5. /\ SameKillSwitch(y, r) /\ r.conn = y.conn /\ r.monitor = y.monitor /\ r.proc = y.proc
      /\ \A a \in Addresses : r.excluded[a] =
           IF a \in A /\ (y.monitor \/ y.excluded[a] > 0) THEN y.excluded[a] + 1
           ELSE y.excluded[a]
      /\ r.routes = y.routes \cup {a \in A : y.monitor /\ y.excluded[a] = 0}
                      \cup (IF y.monitor THEN {c.host} ELSE {})
  BY <1>2, AroundEffect
<1>6. A \in SUBSET Addresses /\ c.host \in A
  BY ConfigFacts DEF ExcludedAddresses
<1> HIDE DEF r, A
<1>7. \A a \in Addresses : y.excluded[a] = 0
  BY <1>4 DEF Exact, Once
<1>8. r.routes = A /\ \A a \in Addresses : r.excluded[a] = Once(a \in A)
  BY <1>4, <1>5, <1>6, <1>7 DEF Once
<1>9. Exact(r)
  BY <1>4, <1>5, <1>8 DEF Exact
<1>10. CASE o \in Failed(x, c)
  <2>1. o.s = x /\ o.at = "failed"
    BY <1>10 DEF Failed, Outcome
  <2>2. QED BY <1>4, <1>10, <2>1, FailedFresh DEF SameKillSwitch
<1>11. CASE x.proc = "running" /\ o \in Failed(y, c)
  <2>1. o.s = y /\ o.at = "failed"
    BY <1>11 DEF Failed, Outcome
  <2>2. Fresh(o, c)
    BY <1>4, <1>11, FailedFresh
  <2>3. SameKillSwitch(y, o.s)
    BY <2>1 DEF SameKillSwitch
  <2>4. QED BY <1>3, <1>4, <1>11, <2>1, <2>2, <2>3
<1>12. CASE x.proc = "running" /\ o = Outcome(r, "peer", c, NoConfig)
  <2>1. o.s = r /\ o.at = "peer" /\ o.c = c
    BY <1>12 DEF Outcome
  <2>2. Fresh(o, c)
    BY <1>4, <1>5, <1>8, <1>9, <2>1 DEF Fresh, Waits, A
  <2>3. QED BY <1>3, <1>4, <1>5, <1>12, <2>1, <2>2
<1>13. QED BY <1>1, <1>10, <1>11, <1>12

\* The answer to the peer's command, and the rest of the activation.
LEMMA PeerFresh ==
  ASSUME NEW x \in ServiceStates, Exact(x), NEW f, Waits(x, f), f.at = "peer",
         NEW o \in peerReply(x, f.c)
  PROVE  /\ Fresh(o, f.c) /\ SameKillSwitch(x, o.s) /\ o.s.proc = x.proc
         /\ o.at \in {"done", "failed"}
<1> DEFINE c == f.c
           t == [x EXCEPT !.resolvers = TRUE]
           u == [t EXCEPT !.conn = c, !.date = FALSE]
<1>1. o \in Failed(x, c) \/ o \in Failed(t, c) \/ o = Outcome(u, "done", c, NoConfig)
  BY DEF peerReply
<1>2. /\ t.conn = x.conn /\ t.monitor = x.monitor /\ t.excluded = x.excluded
      /\ t.routes = x.routes /\ SameKillSwitch(x, t) /\ t.proc = x.proc
      /\ u.conn = c /\ u.monitor = x.monitor /\ u.excluded = x.excluded
      /\ u.routes = x.routes /\ SameKillSwitch(x, u) /\ u.proc = x.proc
  BY DEF ServiceStates, SameKillSwitch
<1> HIDE DEF t, u
<1>3. /\ x.conn = NoConfig /\ Exact(t) /\ t.conn = NoConfig /\ Exact(u)
  BY <1>2 DEF Exact, Waits
<1>4. CASE o \in Failed(x, c) \/ o \in Failed(t, c)
  <2>1. (o.s = x \/ o.s = t) /\ o.at = "failed"
    BY <1>4 DEF Failed, Outcome
  <2>2. QED BY <1>2, <1>3, <1>4, <2>1, FailedFresh DEF SameKillSwitch
<1>5. CASE o = Outcome(u, "done", c, NoConfig)
  <2>1. o.s = u /\ o.at = "done" /\ o.c = c
    BY <1>5 DEF Outcome
  <2>2. QED BY <1>2, <1>3, <2>1 DEF Fresh, Waits
<1>6. QED BY <1>1, <1>4, <1>5

\* The activation that waits goes on.
LEMMA ResumeFresh ==
  ASSUME NEW x, Sound(x), Exact(x), NEW f \in Frames, f # NoFrame, Waits(x, f),
         NEW o \in resume(x, f)
  PROVE  Fresh(o, f.c)
<1>1. f.at \in {"name", "setup", "peer"} /\ f.c \in Configs /\ x \in ServiceStates
  BY DEF Frames, Waits, Sound
<1>2. CASE f.at = "name"
  BY <1>1, <1>2, NameFresh DEF resume
<1>3. CASE f.at = "setup"
  BY <1>1, <1>3, SetupFresh DEF resume
<1>4. CASE f.at = "peer"
  BY <1>1, <1>4, PeerFresh DEF resume
<1>5. QED BY <1>1, <1>2, <1>3, <1>4

(***************************************************************************)
(* What a step can do while the daemon is told everything.                 *)
(***************************************************************************)
\* A mark after which the state is still clear.
LEMMA MarkedClear ==
  ASSUME NEW m, Marked(m) \cap Untold = {}
  PROVE  Clear /\ m \notin Untold /\ Marked(m) = marks \cup {m}
BY DEF Marked, Clear

\* A crash always leaves its mark.
LEMMA NoCrash ==
  ASSUME Clear'
  PROVE  ~ClientCrash /\ ~ServiceCrash /\ ~ServiceQuit
<1>1. marks' # Marked("crash")
  BY MarkedClear DEF Clear, Untold
<1>2. QED BY <1>1 DEF ClientCrash, ServiceCrash, ServiceQuit, ServiceEnds

\* A new object in a state that stays clear finds the daemon idle, its socket read.
LEMMA NewClear ==
  ASSUME IInv, Session, NEW kind, NEW c, NEW words \in Seq(Commands), New(kind, c, words), Clear'
  PROVE  /\ Quiet /\ DaemonIdle /\ up /\ app.phase = "off"
         /\ (Clean /\ marks' = {}) \/ (Clear /\ marks' = marks)
         /\ inbox' = (IF app.kind = "wg" THEN <<Deactivate>> ELSE <<>>) \o words
         /\ UNCHANGED <<up, frame>> /\ app' = [kind |-> kind, phase |-> "starting", c |-> c]
<1>1. marks' # Marked("overlap")
  BY MarkedClear DEF Clear, Untold
<1>2. Quiet /\ ((Clean /\ marks' = {}) \/ (Clear /\ marks' = marks))
  BY <1>1 DEF New, Clean, Clear
<1>3. app.phase = "off" /\ up
  BY DEF New
<1>4. DaemonIdle
  <2>1. CASE Clear
    <3>1. inbox = <<>> /\ inbox # <<Deactivate>>
      BY <1>2, ReadFacts DEF Quiet
    <3>2. Shape /\ ~Asked /\ ~Working /\ ~Leaving /\ ~Held
      BY <1>3, <2>1, <3>1 DEF Session, Asked, Working, Leaving, Held
    <3>3. QED BY <3>2 DEF Shape, Resting, Recalled
  <2>2. QED BY <1>2, <2>1 DEF Clean
<1>5. LostRest = {}
  BY <1>2 DEF LostRest, Quiet
<1>6. Deactivate \in Commands
  BY DEF Commands
<1>7. Append(<<>>, Deactivate) = <<Deactivate>>
  BY <1>6, SendFacts
<1>8. inbox' = (IF app.kind = "wg" THEN <<Deactivate>> ELSE <<>>) \o words
  BY <1>2, <1>5, <1>7 DEF New, Quiet
<1>9. QED BY <1>2, <1>3, <1>4, <1>8 DEF New

\* A step that leaves the state clear began in a clear one, or began anew.
LEMMA ClearBefore ==
  ASSUME IInv, Session, Next, Clear'
  PROVE  Clear \/ Reboot \/ (StartTunnel /\ Clean /\ marks' = {})
<1>1. CASE StartTunnel
  <2>1. PICK c : StartWireguard(c) \/ StartOpenVpn(c) \/ StartXray(c)
    BY <1>1 DEF StartTunnel
  <2>2. PICK kind, words : New(kind, c, words)
    BY <2>1 DEF StartWireguard, StartOpenVpn, StartXray
  <2>3. marks' # Marked("overlap")
    BY MarkedClear DEF Clear, Untold
  <2>4. QED BY <1>1, <2>2, <2>3 DEF New, Clear
<1>2. CASE Stop
  BY <1>2, MarkedClear DEF Stop, Clear
<1>3. CASE PrepareRequest \/ \E b \in BOOLEAN : RefreshKillSwitch(b)
  BY <1>3, MarkedClear DEF PrepareRequest, RefreshKillSwitch, Clear
<1>4. CASE ProcessDies
  BY <1>4, MarkedClear DEF ProcessDies, Clear
<1>5. CASE DaemonStep
  BY <1>5 DEF DaemonStep, ReadActivate, ReadDeactivate, Resume, CheckHandshake, ProcessReaped,
              Clear
<1>6. CASE UpdateVpnGateway \/ SetupRouting \/ OpenVpnFinished \/ Tun2SocksFinished
  BY <1>6 DEF UpdateVpnGateway, SetupRouting, OpenVpnFinished, Tun2SocksFinished, Clear
<1>7. CASE ServiceStart
  BY <1>7 DEF ServiceStart, Clear
<1>8. QED
  BY <1>1, <1>2, <1>3, <1>4, <1>5, <1>6, <1>7, NoCrash DEF Next, ClientStep, FaultStep

\* A step that leaves the daemon, the socket and the client's object alone.
LEMMA ShapeSame ==
  ASSUME SameDaemon(s, s'), UNCHANGED <<frame, inbox, app>>, Shape
  PROVE  Shape'
<1>1. (DaemonIdle => DaemonIdle') /\ s'.conn = s.conn
  BY DEF SameDaemon, DaemonIdle
<1>2. Resting => Resting'
  BY <1>1 DEF Resting
<1>3. Asked => Asked'
  BY <1>1 DEF Asked
<1>4. Recalled => Recalled'
  BY <1>1 DEF Recalled
<1>5. Working => Working'
  BY DEF Working
<1>6. Leaving => Leaving'
  BY DEF Leaving
<1>7. Held => Held'
  BY <1>1 DEF Held
<1>8. QED BY <1>2, <1>3, <1>4, <1>5, <1>6, <1>7 DEF Shape

\* The client starts a tunnel.
LEMMA StartSession ==
  ASSUME IInv, Session, StartTunnel, Clear'
  PROVE  Shape' /\ Exact(s') /\ Waits(s', frame') /\ up'
<1>0. SameDaemon(s, s') /\ UNCHANGED frame /\ s \in ServiceStates
  BY ClientAlone DEF ClientStep, IInv, Sound
<1>1. PICK h \in Hosts, x \in Options :
        \/ StartWireguard([host |-> h, split |-> x.split, ks |-> x.ks])
        \/ StartOpenVpn([host |-> h, split |-> x.split, ks |-> x.ks])
        \/ StartXray([host |-> h, split |-> x.split, ks |-> x.ks])
  BY DEF StartTunnel
<1> DEFINE c == [host |-> h, split |-> x.split, ks |-> x.ks]
<1>2. c \in Configs
  BY BoundsAssumption DEF Configs
<1>3. StartWireguard(c) \/ StartOpenVpn(c) \/ StartXray(c)
  BY <1>1
<1> HIDE DEF c
<1>4. Activate(c) \in Commands /\ Deactivate \in Commands
  BY <1>2 DEF Commands, Activate
<1>5. <<Activate(c)>> \in Seq(Commands) /\ <<>> \in Seq(Commands)
  BY <1>4
<1>6. /\ <<Deactivate>> \o <<Activate(c)>> = <<Deactivate, Activate(c)>>
      /\ <<>> \o <<Activate(c)>> = <<Activate(c)>>
      /\ <<Deactivate>> \o <<>> = <<Deactivate>> /\ <<>> \o <<>> = <<>>
  BY <1>4, SendFacts
<1>7. ASSUME NEW kind, NEW words \in Seq(Commands), New(kind, c, words)
      PROVE  /\ frame' = NoFrame /\ DaemonIdle' /\ Idle(s') /\ up'
             /\ app' = [kind |-> kind, phase |-> "starting", c |-> c]
             /\ inbox' = (IF app.kind = "wg" THEN <<Deactivate>> ELSE <<>>) \o words
  <2>1. /\ Quiet /\ DaemonIdle /\ up /\ UNCHANGED <<up, frame>>
        /\ app' = [kind |-> kind, phase |-> "starting", c |-> c]
        /\ inbox' = (IF app.kind = "wg" THEN <<Deactivate>> ELSE <<>>) \o words
    BY <1>7, NewClear
  <2>2. DaemonIdle' /\ Idle(s')
    BY <1>0, <2>1 DEF SameDaemon, DaemonIdle, Idle
  <2>3. QED BY <2>1, <2>2 DEF Quiet
<1>8. CASE StartWireguard(c)
  <2>1. New("wg", c, <<Activate(c)>>)
    BY <1>8 DEF StartWireguard
  <2>2. /\ frame' = NoFrame /\ DaemonIdle' /\ Idle(s') /\ up'
        /\ app' = [kind |-> "wg", phase |-> "starting", c |-> c]
        /\ inbox' = (IF app.kind = "wg" THEN <<Deactivate>> ELSE <<>>) \o <<Activate(c)>>
    BY <1>5, <1>7, <2>1
  <2>3. app'.kind = "wg" /\ app'.phase = "starting" /\ app'.c = c
    BY <2>2
  <2>4. Asked'
    BY <1>6, <2>2, <2>3 DEF Asked
  <2>5. QED BY <2>2, <2>4, IdleExact DEF Shape
<1>9. ASSUME NEW kind, kind # "wg", New(kind, c, <<>>)
      PROVE  Shape' /\ Exact(s') /\ Waits(s', frame') /\ up'
  <2>2. /\ frame' = NoFrame /\ DaemonIdle' /\ Idle(s') /\ up'
        /\ app' = [kind |-> kind, phase |-> "starting", c |-> c]
        /\ inbox' = (IF app.kind = "wg" THEN <<Deactivate>> ELSE <<>>) \o <<>>
    BY <1>5, <1>7, <1>9
  <2>3. app'.kind # "wg"
    BY <1>9, <2>2
  <2>4. Resting'
    BY <1>6, <2>2, <2>3 DEF Resting
  <2>5. QED BY <2>2, <2>4, IdleExact DEF Shape
<1>10. QED BY <1>3, <1>8, <1>9 DEF StartOpenVpn, StartXray

\* The client stops its object.
LEMMA StopSession ==
  ASSUME IInv, Shape, DownFresh, Stop, Clear'
  PROVE  Shape'
<1>0. SameDaemon(s, s') /\ UNCHANGED frame
  BY ClientAlone DEF ClientStep
<1>1. app.phase # "off" /\ up /\ app' = Off(app.kind)
  BY DEF Stop, DownFresh, NoApp, Off
<1>2. app'.kind = app.kind /\ app'.phase = "off"
  BY <1>1 DEF Off
<1>3. marks' # Marked("unsent")
  BY MarkedClear DEF Clear, Untold
<1>4. inbox' = IF app.kind = "wg" THEN Append(inbox, Deactivate) ELSE inbox
  BY <1>1, <1>3 DEF Stop
<1>5. DaemonIdle => DaemonIdle'
  BY <1>0 DEF SameDaemon, DaemonIdle
<1>6. Deactivate \in Commands /\ (app.c \in Configs => Activate(app.c) \in Commands)
  BY DEF Commands, Activate
<1>7. CASE Resting
  BY <1>0, <1>1, <1>2, <1>4, <1>5, <1>7 DEF Resting, Shape
<1>8. CASE Asked
  <2>1. app.c \in Configs
    BY <1>1, AppFacts DEF IInv
  <2>2. inbox' \in {<<Activate(app.c), Deactivate>>, <<Deactivate, Activate(app.c), Deactivate>>}
    BY <1>4, <1>6, <1>8, <2>1, SendFacts DEF Asked
  <2>3. Recalled'
    BY <1>0, <1>2, <1>5, <1>8, <2>1, <2>2 DEF Asked, Recalled
  <2>4. QED BY <2>3 DEF Shape
<1>9. CASE Working \/ Held
  <2>1. app.kind = "wg" /\ inbox = <<>>
    BY <1>9 DEF Working, Held
  <2>2. inbox' = <<Deactivate>>
    BY <1>4, <1>6, <2>1, SendFacts
  <2>3. Leaving'
    BY <1>2, <2>1, <2>2 DEF Leaving
  <2>4. QED BY <2>3 DEF Shape
<1>10. QED BY <1>1, <1>7, <1>8, <1>9 DEF Shape, Recalled, Leaving

\* The other steps of the client, and the start of the service.
LEMMA ClientSession ==
  ASSUME IInv, Shape, DownFresh, ClientStep \/ ServiceStart, ~StartTunnel, ~Stop
  PROVE  Shape' /\ up'
<1>0. SameDaemon(s, s') /\ UNCHANGED frame
  BY ClientAlone
<1>1. DaemonIdle => DaemonIdle'
  BY <1>0 DEF SameDaemon, DaemonIdle
<1>2. CASE UpdateVpnGateway \/ SetupRouting \/ OpenVpnFinished \/ Tun2SocksFinished
  <2>1. app.kind \in {"ovpn", "xray"} /\ app.phase # "off"
    BY <1>2 DEF UpdateVpnGateway, SetupRouting, OpenVpnFinished, Tun2SocksFinished
  <2>2. app'.kind = app.kind /\ UNCHANGED inbox
    <3>1. app.phase # "off" => app \in [kind : Kinds, phase : {"starting", "up", "dropped", "failed"}, c : Configs]
      BY DEF IInv, RestOK, Apps, Off
    <3>2. \A p : [app EXCEPT !.phase = p].kind = app.kind
      BY <2>1, <3>1
    <3>3. QED
      BY <1>2, <3>2 DEF UpdateVpnGateway, SetupRouting, OpenVpnFinished, Tun2SocksFinished, Phase
  <2>3. Resting
    BY <2>1 DEF Shape, Asked, Recalled, Working, Leaving, Held
  <2>4. Resting'
    BY <1>0, <1>1, <2>1, <2>2, <2>3 DEF Resting
  <2>5. up'
    <3>1. up
      BY <2>1 DEF DownFresh, NoApp, Off
    <3>2. UNCHANGED up
      BY <1>2 DEF UpdateVpnGateway, SetupRouting, OpenVpnFinished, Tun2SocksFinished
    <3>3. QED BY <3>1, <3>2
  <2>6. QED BY <2>4, <2>5 DEF Shape
<1>3. CASE PrepareRequest \/ \E b \in BOOLEAN : RefreshKillSwitch(b)
  <2>1. UNCHANGED <<frame, inbox, app>> /\ up'
    BY <1>3 DEF PrepareRequest, RefreshKillSwitch
  <2>2. QED BY <1>0, <2>1, ShapeSame
<1>4. CASE ServiceStart
  <2>1. UNCHANGED <<frame, inbox, app>> /\ up'
    BY <1>4 DEF ServiceStart
  <2>2. QED BY <1>0, <2>1, ShapeSame
<1>5. QED BY <1>2, <1>3, <1>4 DEF ClientStep

\* What the next command is when it is an activation, and what comes after it.
LEMMA ReadsActivate ==
  ASSUME Shape, frame = NoFrame, inbox # <<>>, Head(inbox).type = "activate"
  PROVE  /\ DaemonIdle /\ app.kind = "wg"
         /\ \/ app.phase = "starting" /\ Head(inbox) = Activate(app.c) /\ Tail(inbox) = <<>>
            \/ app.phase = "off" /\ Head(inbox).c \in Configs /\ Tail(inbox) = <<Deactivate>>
<1>1. Deactivate.type # "activate" /\ \A c : Activate(c).c = c
  BY DEF Deactivate, Activate
<1>2. inbox # <<Deactivate>>
  BY <1>1, ReadFacts
<1>3. Asked \/ Recalled
  BY <1>2 DEF Shape, Resting, Working, Leaving, Held
<1>4. CASE Asked
  <2>1. inbox = <<Activate(app.c)>>
    BY <1>1, <1>4, ReadFacts DEF Asked
  <2>2. Head(inbox) = Activate(app.c) /\ Tail(inbox) = <<>>
    BY <2>1, ReadFacts
  <2>3. QED BY <1>4, <2>2 DEF Asked
<1>5. CASE Recalled
  <2>1. PICK c \in Configs :
          inbox \in {<<Activate(c), Deactivate>>, <<Deactivate, Activate(c), Deactivate>>}
    BY <1>5 DEF Recalled
  <2>2. inbox = <<Activate(c), Deactivate>>
    BY <1>1, <2>1, ReadFacts
  <2>3. QED BY <1>1, <1>5, <2>2, ReadFacts DEF Recalled
<1>6. QED BY <1>3, <1>4, <1>5

\* Where an outcome leaves the session.
LEMMA ContinueSession ==
  ASSUME IInv, app.kind = "wg", NEW c, NEW o, Fresh(o, c), Continue(o), NEW rest, inbox' = rest,
         \/ app.phase = "starting" /\ app.c = c /\ rest = <<>>
         \/ app.phase = "off" /\ rest = <<Deactivate>>
  PROVE  Shape' /\ Exact(s') /\ Waits(s', frame')
<1>1. s' = o.s /\ Exact(s')
  BY DEF Continue, Fresh
<1>2. Waits(s', frame')
  BY DEF Continue, Fresh, Waits, NoFrame
<1>3. CASE app.phase = "off" /\ rest = <<Deactivate>>
  <2>1. UNCHANGED app
    BY <1>3 DEF Continue
  <2>2. Leaving'
    BY <1>3, <2>1 DEF Leaving
  <2>3. QED BY <1>1, <1>2, <2>2 DEF Shape
<1>4. CASE app.phase = "starting" /\ app.c = c /\ rest = <<>>
  <2>1. app \in [kind : Kinds, phase : {"starting", "up", "dropped", "failed"}, c : Configs]
    BY <1>4 DEF IInv, RestOK, Apps, Off
  <2>2. CASE o.at \in {"name", "setup", "peer"}
    <3>1. frame' = [at |-> o.at, c |-> o.c, last |-> o.last] /\ UNCHANGED app
      BY <2>2 DEF Continue
    <3>2. frame' # NoFrame /\ frame'.c = c
      BY <2>2, <3>1 DEF NoFrame, Fresh
    <3>3. Working'
      BY <1>4, <3>1, <3>2 DEF Working
    <3>4. QED BY <1>1, <1>2, <3>3 DEF Shape
  <2>3. CASE o.at = "done"
    <3>1. frame' = NoFrame /\ UNCHANGED app /\ s'.conn = app.c
      BY <1>1, <1>4, <2>3 DEF Continue, Fresh
    <3>2. Held'
      BY <1>4, <3>1 DEF Held
    <3>3. QED BY <1>1, <1>2, <3>2 DEF Shape
  <2>4. CASE o.at = "failed"
    <3>1. frame' = NoFrame /\ app' = [app EXCEPT !.phase = "failed"] /\ s'.conn = NoConfig
      BY <1>1, <1>4, <2>4 DEF Continue, Fresh
    <3>2. app'.kind = "wg" /\ app'.phase = "failed"
      BY <2>1, <3>1
    <3>3. Held'
      BY <1>4, <3>1, <3>2 DEF Held
    <3>4. QED BY <1>1, <1>2, <3>3 DEF Shape
  <2>5. QED BY <2>2, <2>3, <2>4 DEF Fresh
<1>5. QED BY <1>3, <1>4

\* The daemon reads an activation.
LEMMA ReadActivateSession ==
  ASSUME IInv, Shape, ReadActivate
  PROVE  Shape' /\ Exact(s') /\ Waits(s', frame')
<1>1. /\ DaemonIdle /\ app.kind = "wg"
      /\ \/ app.phase = "starting" /\ Head(inbox) = Activate(app.c) /\ Tail(inbox) = <<>>
         \/ app.phase = "off" /\ Head(inbox).c \in Configs /\ Tail(inbox) = <<Deactivate>>
  BY ReadsActivate DEF ReadActivate
<1>2. Head(inbox).c \in Configs /\ (app.phase = "starting" => app.c = Head(inbox).c)
  BY <1>1, AppFacts DEF IInv, Activate
<1>3. PICK o \in activate(s, Head(inbox).c) : Continue(o)
  BY DEF ReadActivate
<1>4. Fresh(o, Head(inbox).c)
  BY <1>1, <1>2, <1>3, ActivateFresh, IdleAgree DEF IInv, Sound
<1>5. inbox' = Tail(inbox)
  BY DEF ReadActivate
<1>6. QED BY <1>1, <1>2, <1>3, <1>4, <1>5, ContinueSession

\* The activation that waits goes on.
LEMMA ResumeSession ==
  ASSUME IInv, Shape, Exact(s), Waits(s, frame), Resume
  PROVE  Shape' /\ Exact(s') /\ Waits(s', frame')
<1>1. frame # NoFrame /\ frame \in Frames /\ Sound(s) /\ UNCHANGED inbox
  BY DEF IInv, RestOK, Resume
<1>2. Working \/ Leaving
  BY <1>1 DEF Shape, Resting, Asked, Recalled, Held
<1>3. PICK o \in resume(s, frame) : Continue(o)
  BY DEF Resume
<1>4. Fresh(o, frame.c)
  BY <1>1, <1>3, ResumeFresh
<1>5. /\ app.kind = "wg"
      /\ \/ app.phase = "starting" /\ app.c = frame.c /\ inbox = <<>>
         \/ app.phase = "off" /\ inbox = <<Deactivate>>
  BY <1>2 DEF Working, Leaving
<1>6. QED BY <1>1, <1>3, <1>4, <1>5, ContinueSession

\* The daemon reads a deactivation.
LEMMA ReadDeactivateSession ==
  ASSUME IInv, Shape, Exact(s), ReadDeactivate
  PROVE  Shape' /\ Exact(s') /\ Waits(s', frame')
<1>1. /\ frame = NoFrame /\ frame' = NoFrame /\ inbox # <<>> /\ inbox' = Tail(inbox)
      /\ Head(inbox).type = "deactivate" /\ s' = deactivate(s) /\ UNCHANGED app
  BY DEF ReadDeactivate
<1>2. Idle(s')
  BY <1>1, DeactivateIdle DEF IInv, Sound
<1>3. DaemonIdle'
  BY <1>2 DEF Idle, DaemonIdle
<1>4. \A c : Activate(c).type # "deactivate"
  BY DEF Activate
<1>5. CASE Resting \/ Leaving
  <2>1. inbox = <<Deactivate>> /\ (app.kind # "wg" \/ app.phase = "off")
    BY <1>1, <1>5 DEF Resting, Leaving
  <2>2. inbox' = <<>>
    BY <1>1, <2>1, ReadFacts
  <2>3. Resting'
    BY <1>1, <1>3, <2>1, <2>2 DEF Resting
  <2>4. QED BY <1>1, <1>2, <2>3, IdleExact DEF Shape
<1>6. CASE Asked
  <2>1. inbox = <<Deactivate, Activate(app.c)>>
    BY <1>1, <1>4, <1>6, ReadFacts DEF Asked
  <2>2. inbox' = <<Activate(app.c)>>
    BY <1>1, <2>1, ReadFacts
  <2>3. Asked'
    BY <1>1, <1>3, <1>6, <2>2 DEF Asked
  <2>4. QED BY <1>1, <1>2, <2>3, IdleExact DEF Shape
<1>7. CASE Recalled
  <2>1. PICK c \in Configs :
          inbox \in {<<Activate(c), Deactivate>>, <<Deactivate, Activate(c), Deactivate>>}
    BY <1>7 DEF Recalled
  <2>2. inbox = <<Deactivate, Activate(c), Deactivate>>
    BY <1>1, <1>4, <2>1, ReadFacts
  <2>3. inbox' = <<Activate(c), Deactivate>>
    BY <1>1, <2>2, ReadFacts
  <2>4. Recalled'
    BY <1>1, <1>3, <1>7, <2>3 DEF Recalled
  <2>5. QED BY <1>1, <1>2, <2>4, IdleExact DEF Shape
<1>8. QED BY <1>1, <1>5, <1>6, <1>7 DEF Shape, Working, Held

\* The handshake, and the end of the tunnel process.
LEMMA ProcessSession ==
  ASSUME IInv, Shape, Exact(s), Waits(s, frame), CheckHandshake \/ ProcessReaped \/ ProcessDies
  PROVE  Shape' /\ Exact(s') /\ Waits(s', frame')
<1>1. s \in ServiceStates /\ frame \in Frames
  BY DEF IInv, Sound, RestOK
<1>2. /\ s'.monitor = s.monitor /\ s'.conn = s.conn /\ s'.excluded = s.excluded
      /\ s'.routes = s.routes /\ UNCHANGED <<frame, inbox>>
  BY <1>1, EndEffect DEF CheckHandshake, ProcessReaped, ProcessDies
<1>3. Exact(s') /\ Waits(s', frame')
  BY <1>2 DEF Exact, Waits
<1>4. s.proc # "off" \/ s.conn # NoConfig
  BY DEF CheckHandshake, handshakeDue, ProcessReaped, ProcessDies
<1>5. Working \/ Leaving \/ Held
  BY <1>4 DEF Shape, Resting, Asked, Recalled, DaemonIdle
<1>6. CASE Leaving
  <2>1. UNCHANGED app
    BY <1>6 DEF CheckHandshake, ProcessReaped, ProcessDies, Leaving
  <2>2. QED BY <1>2, <1>3, <1>6, <2>1 DEF Leaving, Shape
<1>7. CASE Working
  <2>1. s.conn = NoConfig
    BY <1>1, <1>7 DEF Working, Frames, Waits
  <2>2. UNCHANGED app
    BY <1>7, <2>1 DEF CheckHandshake, handshakeDue, ProcessReaped, ProcessDies, Working
  <2>3. QED BY <1>2, <1>3, <1>7, <2>2 DEF Working, Shape
<1>8. CASE Held
  <2>1. app \in [kind : Kinds, phase : {"starting", "up", "dropped", "failed"}, c : Configs]
    BY <1>8 DEF IInv, RestOK, Apps, Off, Held
  <2>2. /\ app'.kind = app.kind /\ app'.c = app.c /\ app'.phase # "off"
        /\ app'.phase \in {"up", "dropped"} => s.conn = app.c
    BY <1>8, <2>1 DEF CheckHandshake, handshakeDue, ProcessReaped, ProcessDies, Held, Dropped
  <2>3. Held'
    BY <1>2, <1>8, <2>2 DEF Held
  <2>4. QED BY <1>3, <2>3 DEF Shape
<1>9. QED BY <1>5, <1>6, <1>7, <1>8

\* Every step keeps the session in shape.
LEMMA SessionStep ==
  ASSUME IInv, Session, [Next]_vars
  PROVE  Session'
<1>1. CASE UNCHANGED vars
  <2>1. SameDaemon(s, s') /\ UNCHANGED <<frame, inbox, app>>
    BY <1>1 DEF vars, SameDaemon
  <2>2. Shape => Shape'
    BY <2>1, ShapeSame
  <2>3. QED BY <1>1, <2>2 DEF vars, Session, Clear, DownFresh, Exact, Waits
<1>2. CASE Next
  <2> SUFFICES ASSUME Clear' PROVE Shape' /\ Exact(s') /\ Waits(s', frame') /\ DownFresh'
    BY DEF Session, Exact, Waits
  <2>0. Clear \/ Reboot \/ (StartTunnel /\ Clean /\ marks' = {})
    BY <1>2, ClearBefore
  <2>1. CASE Reboot
    <3>1. /\ Idle(s') /\ s'.fw = uninstall /\ frame' = NoFrame /\ inbox' = <<>> /\ app' = NoApp
      BY <2>1, EndEffect DEF Reboot, Idle, IInv, Sound
    <3>2. Resting'
      BY <3>1 DEF Resting, Idle, DaemonIdle, NoApp, Off
    <3>3. QED BY <3>1, <3>2, IdleExact DEF Shape, DownFresh
  <2>2. CASE StartTunnel
    BY <2>2, StartSession DEF DownFresh
  <2>3. CASE Clear /\ ~Reboot /\ ~StartTunnel
    <3>0. Shape /\ Exact(s) /\ Waits(s, frame) /\ DownFresh
      BY <2>3 DEF Session
    <3>1. CASE ClientStep \/ ServiceStart
      <4>1. SameDaemon(s, s') /\ UNCHANGED frame
        BY <3>1, ClientAlone
      <4>2. Exact(s') /\ Waits(s', frame')
        BY <3>0, <4>1, ExactSame
      <4>3. CASE Stop
        <5>1. up'
          BY <3>0, <4>3 DEF Stop, DownFresh, NoApp, Off
        <5>2. QED BY <3>0, <4>2, <4>3, <5>1, StopSession DEF DownFresh
      <4>4. CASE ~Stop
        BY <2>3, <3>0, <3>1, <4>2, <4>4, ClientSession DEF DownFresh
      <4>5. QED BY <4>3, <4>4
    <3>2. CASE ReadActivate \/ ReadDeactivate \/ Resume \/ CheckHandshake
      <4>1. up'
        BY <3>2 DEF ReadActivate, ReadDeactivate, Resume, CheckHandshake
      <4>2. QED BY <3>0, <3>2, <4>1, ReadActivateSession, ReadDeactivateSession, ResumeSession,
                   ProcessSession DEF DownFresh
    <3>3. CASE ProcessReaped \/ ProcessDies
      <4>1. Shape' /\ Exact(s') /\ Waits(s', frame')
        BY <3>0, <3>3, ProcessSession
      <4>2. s.proc # "off" /\ UNCHANGED up
        BY <3>3 DEF ProcessReaped, ProcessDies
      <4>3. up
        <5>1. ~up => Resting
          BY <3>0, ReadFacts DEF DownFresh, NoApp, Off, Shape, Asked, Recalled, Working, Leaving,
                                 Held
        <5>2. QED BY <4>2, <5>1 DEF Resting, DaemonIdle, IInv, RestOK
      <4>4. QED BY <4>1, <4>2, <4>3 DEF DownFresh
    <3>4. QED BY <1>2, <2>3, <3>1, <3>2, <3>3, NoCrash DEF Next, DaemonStep, FaultStep
  <2>4. QED BY <2>0, <2>1, <2>2, <2>3
<1>3. QED BY <1>1, <1>2

\* The session is in shape in every state.
LEMMA SessionAlways == Spec => []Session
<1>1. Init => Session
  <2> SUFFICES ASSUME Init PROVE Shape /\ Exact(s) /\ Waits(s, frame) /\ DownFresh
    BY DEF Session
  <2>1. Idle(s)
    BY DEF Init, freshService, Idle
  <2>2. Resting
    BY <2>1, IdleAgree DEF Init, Resting, NoApp, Off
  <2>3. QED BY <2>1, <2>2, IdleExact DEF Init, Shape, DownFresh
<1>2. IInv /\ Session /\ [Next]_vars => Session'
  BY SessionStep
<1>3. QED BY <1>1, <1>2, Invariant, PTL DEF Spec

(***************************************************************************)
(* The exclusion routes of the connection that is up are all there and     *)
(* counted, after every interleaving of tunnels, server switches and       *)
(* crashes, and there are no others unless a crash or an overlap left them *)
(* (Daemon::activate, switchServer, deactivate; m_excludedAddrSet).        *)
(***************************************************************************)
THEOREM RoutesFollow == Spec => []RoutesFollowConnection
<1>1. IInv /\ Routed(s, frame) /\ Session => RoutesFollowConnection
  <2> SUFFICES ASSUME IInv, Routed(s, frame), Session, s.conn # NoConfig
               PROVE  LET mine == ExcludedAddresses(s.conn)
                      IN  /\ mine \subseteq s.routes
                          /\ \A a \in mine : s.excluded[a] > 0
                          /\ \/ marks \cap Untold # {}
                             \/ /\ s.routes = mine
                                /\ \A a \in Addresses :
                                     s.excluded[a] = IF a \in mine THEN 1 ELSE 0
    BY DEF RoutesFollowConnection
  <2>1. ExcludedAddresses(s.conn) \in SUBSET Addresses
    BY ConfigFacts DEF IInv, Sound, ServiceStates
  <2>2. QED BY <2>1 DEF Routed, Grounded, Counted, Session, Clear, Exact, Once
<1>2. QED BY <1>1, Invariant, RoutedAlways, SessionAlways, PTL

-----------------------------------------------------------------------------
(***************************************************************************)
(* SoftOpen: in soft mode the firewall has rules only for a tunnel that is *)
(* there, and none for one whose option is off, unless the tunnel process  *)
(* died by itself.                                                         *)
(***************************************************************************)
RulesOwned ==
  \/ s.fw = uninstall
  \/ app.kind # "wg" /\ app.phase # "off"
  \/ s.proc = "running" /\ frame.at \notin {"name", "setup"}

RulesWanted ==
  (app.phase # "off" /\ (~app.c.ks \/ (app.kind # "wg" /\ app.phase = "starting")))
    => s.fw = uninstall

SoftOpen == Clear /\ ~s.strict /\ "died" \notin marks => RulesOwned /\ RulesWanted

\* The kill switch in soft mode (disableKillSwitch, addAllowedRange, init).
LEMMA SoftEffect ==
  ASSUME NEW x \in ServiceStates, NEW r
  PROVE  /\ disableKillSwitch(x).strict = x.strict
         /\ ~x.strict => disableKillSwitch(x).fw = uninstall /\ init(x) = x
         /\ addAllowedRange(x, r).strict = x.strict
         /\ x.fw = uninstall => addAllowedRange(x, r).fw = uninstall
<1>1. /\ disableKillSwitch(x).strict = x.strict
      /\ ~x.strict => disableKillSwitch(x).fw = uninstall /\ init(x) = x
  BY DEF disableKillSwitch, init, ServiceStates
<1>2. /\ addAllowedRange(x, r).strict = x.strict
      /\ addAllowedRange(x, r).fw
           = updateAllowNets(enableAnchors(x.fw, IPv4, {allowNets}), x.ranges \cup r)
  BY DEF addAllowedRange, resetAllowedRange, ServiceStates
<1>3. x.fw = uninstall => addAllowedRange(x, r).fw = uninstall
  BY <1>2, InstallFacts DEF enableAnchors, updateAllowNets
<1>4. QED BY <1>1, <1>2, <1>3

\* A tunnel that starts in soft mode finds no rules, and leaves none behind.
LEMMA StartOpen ==
  ASSUME IInv, Session, SoftOpen, StartTunnel, Clear', ~s'.strict, "died" \notin marks'
  PROVE  s'.fw = uninstall
<1>1. PICK c : StartWireguard(c) \/ StartOpenVpn(c) \/ StartXray(c)
  BY DEF StartTunnel
<1>2. PICK kind, words : New(kind, c, words)
  BY <1>1 DEF StartWireguard, StartOpenVpn, StartXray
<1>3. Sound(s) /\ Sound(stopAgain) /\ s \in ServiceStates /\ stopAgain \in ServiceStates
  BY StopAgainFacts DEF IInv, Sound
<1>4. disableKillSwitch(stopAgain) \in ServiceStates
  BY <1>3, DisableKillSwitchFacts DEF Keeps, Sound
<1>5. /\ s'.strict = s.strict /\ ~s.strict /\ stopAgain.strict = s.strict
      /\ s' = stopAgain \/ s' = addAllowedRange(disableKillSwitch(stopAgain), {c.host})
  BY <1>1, <1>3, <1>4, SoftEffect DEF StartWireguard, StartOpenVpn, StartXray, stopAgain
<1>6. CASE s' = addAllowedRange(disableKillSwitch(stopAgain), {c.host})
  BY <1>3, <1>4, <1>5, <1>6, SoftEffect
<1>7. CASE s' = stopAgain
  <2>1. s.fw = uninstall
    <3>1. marks' # Marked("overlap")
      BY MarkedClear DEF Clear, Untold
    <3>2. Quiet /\ (Clean \/ (Clear /\ marks' = marks)) /\ app.phase = "off"
      BY <1>2, <3>1 DEF New, Clean, Clear
    <3>3. CASE Clear /\ marks' = marks
      <4>1. inbox = <<>> /\ inbox # <<Deactivate>> /\ RulesOwned /\ Shape
        BY <1>5, <3>2, <3>3, ReadFacts DEF Quiet, SoftOpen, Session
      <4>2. DaemonIdle
        BY <3>2, <4>1 DEF Shape, Resting, Asked, Recalled, Working, Leaving, Held
      <4>3. QED BY <3>2, <4>1, <4>2 DEF RulesOwned, DaemonIdle
    <3>4. QED BY <1>5, <3>2, <3>3 DEF Clean
  <2>2. QED BY <1>3, <1>5, <1>7, <2>1, SoftEffect DEF stopAgain
<1>8. QED BY <1>5, <1>6, <1>7

\* A client's object that is not off.
LEMMA LiveApp ==
  ASSUME IInv, app.phase # "off"
  PROVE  /\ app \in [kind : Kinds, phase : {"starting", "up", "dropped", "failed"}, c : Configs]
         /\ \A p : /\ [app EXCEPT !.phase = p].kind = app.kind
                   /\ [app EXCEPT !.phase = p].c = app.c
                   /\ [app EXCEPT !.phase = p].phase = p
<1>1. app \in [kind : Kinds, phase : {"starting", "up", "dropped", "failed"}, c : Configs]
  BY DEF IInv, RestOK, Apps, Off
<1>2. QED BY <1>1

\* The kill switch of OpenVPN and Xray keeps the mode (enableKillSwitch).
LEMMA ArmedMode ==
  ASSUME Sound(s), NEW c \in Configs
  PROVE  Sound(armed(s, c)) /\ armed(s, c).strict = s.strict /\ (~c.ks => armed(s, c) = s)
BY EnableKillSwitchFacts DEF armed, Keeps

\* The steps of OpenVPN and Xray.
LEMMA TunnelOpen ==
  ASSUME IInv, RulesOwned, RulesWanted, ~s'.strict,
         UpdateVpnGateway \/ SetupRouting \/ OpenVpnFinished \/ Tun2SocksFinished
  PROVE  RulesOwned' /\ RulesWanted'
<1>0. Sound(s) /\ s \in ServiceStates /\ app.kind \in {"ovpn", "xray"} /\ app.phase # "off"
  BY DEF IInv, Sound, UpdateVpnGateway, SetupRouting, OpenVpnFinished, Tun2SocksFinished
<1>1. app.c \in Configs /\ app.c.ks \in BOOLEAN
  BY <1>0, LiveApp, ConfigFacts
<1>2. /\ Sound(armed(s, app.c)) /\ armed(s, app.c).strict = s.strict
      /\ ~app.c.ks => armed(s, app.c) = s
  BY <1>0, <1>1, ArmedMode
<1>3. ASSUME NEW p \in {"up", "dropped", "failed"}, Phase(p), ~app.c.ks => s'.fw = uninstall
      PROVE  RulesOwned' /\ RulesWanted'
  <2>1. app'.kind = app.kind /\ app'.c = app.c /\ app'.phase = p
    BY <1>0, <1>3, LiveApp DEF Phase
  <2>2. QED BY <1>0, <1>3, <2>1 DEF RulesOwned, RulesWanted
<1>4. ~app.c.ks => s.fw = uninstall
  BY <1>0 DEF RulesWanted
<1>5. CASE UpdateVpnGateway
  BY <1>2, <1>3, <1>4, <1>5 DEF UpdateVpnGateway
<1>6. CASE SetupRouting
  <2>1. CASE s' = armed(s, app.c) /\ Phase("up")
    BY <1>2, <1>3, <1>4, <2>1
  <2>2. CASE s' \in {disableKillSwitch(s), disableKillSwitch(armed(s, app.c))} /\ Phase("failed")
    <3>1. armed(s, app.c) \in ServiceStates
      BY <1>2 DEF Sound
    <3>2. s'.fw = uninstall
      BY <1>0, <2>2, <3>1, SoftEffect
    <3>3. QED BY <1>3, <2>2, <3>2
  <2>3. QED BY <1>6, <2>1, <2>2 DEF SetupRouting
<1>7. CASE OpenVpnFinished
  BY <1>3, <1>4, <1>7 DEF OpenVpnFinished
<1>8. CASE Tun2SocksFinished
  <2>1. s'.fw = uninstall
    BY <1>0, <1>8, SoftEffect DEF Tun2SocksFinished
  <2>2. QED BY <1>3, <1>8, <2>1 DEF Tun2SocksFinished
<1>9. QED BY <1>5, <1>6, <1>7, <1>8

\* The stop of an object, the calls for the gateway and for the settings.
LEMMA StopOpen ==
  ASSUME IInv, Session, Clear, Clear', ~s'.strict, "died" \notin marks, SoftOpen,
         Stop \/ PrepareRequest \/ \E b \in BOOLEAN : RefreshKillSwitch(b)
  PROVE  RulesOwned' /\ RulesWanted'
<1>0. Sound(s) /\ s \in ServiceStates /\ SameDaemon(s, s') /\ UNCHANGED frame
  BY ClientAlone DEF IInv, Sound, ClientStep
<1>1. CASE Stop
  <2>1. app.phase # "off" /\ up /\ app' = Off(app.kind) /\ s' = stopAgain
    BY <1>1 DEF Stop, Session, DownFresh, NoApp, Off
  <2>2. app'.phase = "off" /\ app'.kind = app.kind
    BY <2>1 DEF Off
  <2>3. s'.strict = s.strict
    BY <1>0, <2>1, SoftEffect DEF stopAgain
  <2>4. app.kind \in Kinds
    BY <2>1, AppFacts DEF IInv
  <2>5. CASE app.kind = "wg"
    BY <1>0, <2>1, <2>2, <2>3, <2>5 DEF stopAgain, SoftOpen, RulesOwned, RulesWanted, SameDaemon
  <2>6. CASE app.kind \in {"ovpn", "xray"}
    <3>1. s'.fw = uninstall
      BY <1>0, <2>1, <2>3, <2>6, SoftEffect DEF stopAgain
    <3>2. QED BY <2>2, <3>1 DEF RulesOwned, RulesWanted
  <2>7. QED BY <2>4, <2>5, <2>6 DEF Kinds
<1>2. CASE PrepareRequest
  <2>1. s' = addAllowedRange(s, {Gateway}) /\ UNCHANGED <<app, frame>>
    BY <1>2 DEF PrepareRequest
  <2>2. s'.strict = s.strict /\ (s.fw = uninstall => s'.fw = uninstall)
    BY <1>0, <2>1, SoftEffect
  <2>3. QED BY <1>0, <2>1, <2>2 DEF SoftOpen, RulesOwned, RulesWanted, SameDaemon
<1>3. CASE \E b \in BOOLEAN : RefreshKillSwitch(b)
  <2>1. PICK b \in BOOLEAN : s' = refresh(s, b)
    BY <1>3 DEF RefreshKillSwitch
  <2>2. ~b
    BY <1>0, <2>1, RefreshFacts
  <2>3. s'.fw = uninstall
    BY <1>0, <2>1, <2>2 DEF refresh, disableKillSwitch, ServiceStates
  <2>4. QED BY <2>3 DEF RulesOwned, RulesWanted
<1>4. QED BY <1>1, <1>2, <1>3

\* Where an outcome leaves the client's object.
LEMMA ContinueApp ==
  ASSUME IInv, NEW o, Continue(o)
  PROVE  /\ app'.kind = app.kind /\ app'.c = app.c
         /\ app'.phase = "off" <=> app.phase = "off"
         /\ app'.phase = app.phase \/ app'.phase = "failed"
<1>1. CASE o.at = "failed" /\ app.kind = "wg" /\ app.phase # "off"
  BY <1>1, LiveApp DEF Continue
<1>2. CASE ~(o.at = "failed" /\ app.kind = "wg" /\ app.phase # "off")
  BY <1>2 DEF Continue
<1>3. QED BY <1>1, <1>2

\* The daemon's steps.
LEMMA DaemonOpen ==
  ASSUME IInv, Session, Clear, ~s'.strict, "died" \notin marks, SoftOpen, DaemonStep
  PROVE  RulesOwned' /\ RulesWanted'
<1>0. /\ Sound(s) /\ s \in ServiceStates /\ Shape /\ Exact(s) /\ Waits(s, frame)
      /\ frame \in Frames
  BY DEF IInv, Sound, Session, RestOK
<1>1. CASE ReadActivate
  <2>1. DaemonIdle /\ app.kind = "wg" /\ Head(inbox).c \in Configs
    <3>1. /\ DaemonIdle /\ app.kind = "wg"
          /\ \/ app.phase = "starting" /\ Head(inbox) = Activate(app.c) /\ Tail(inbox) = <<>>
             \/ app.phase = "off" /\ Head(inbox).c \in Configs /\ Tail(inbox) = <<Deactivate>>
      BY <1>0, <1>1, ReadsActivate DEF ReadActivate
    <3>2. QED BY <3>1, AppFacts DEF IInv, Activate
  <2>2. PICK o \in activate(s, Head(inbox).c) : Continue(o)
    BY <1>1 DEF ReadActivate
  <2>3. SameKillSwitch(s, s')
    BY <1>0, <2>1, <2>2, ActivateFresh, IdleAgree DEF Continue
  <2>4. s.fw = uninstall
    BY <2>1, <2>3 DEF SameKillSwitch, SoftOpen, RulesOwned, DaemonIdle
  <2>5. QED BY <2>3, <2>4 DEF SameKillSwitch, RulesOwned, RulesWanted
<1>2. CASE ReadDeactivate
  <2>1. s' = deactivate(s) /\ UNCHANGED <<app, frame>>
    BY <1>2 DEF ReadDeactivate
  <2>2. s'.strict = s.strict
    BY <1>0, <2>1, DeactivateEffect
  <2>3. CASE s.proc = "off"
    <3>1. s'.fw = s.fw
      BY <1>0, <2>1, <2>3, DeactivateEffect DEF SameKillSwitch
    <3>2. QED BY <2>1, <2>2, <2>3, <3>1 DEF SoftOpen, RulesOwned, RulesWanted
  <2>4. CASE s.proc # "off"
    <3>1. s'.fw = uninstall
      BY <1>0, <2>1, <2>2, <2>4, DeactivateEffect
    <3>2. QED BY <3>1 DEF RulesOwned, RulesWanted
  <2>5. QED BY <2>3, <2>4
<1>3. CASE Resume
  <2>1. /\ frame # NoFrame /\ frame.at \in {"name", "setup", "peer"} /\ frame.c \in Configs
    BY <1>0, <1>3 DEF Resume, Frames, Waits
  <2>2. Working \/ Leaving
    BY <1>0, <2>1 DEF Shape, Resting, Asked, Recalled, Held
  <2>3. app.kind = "wg" /\ (app.phase # "off" => app.c = frame.c)
    BY <2>2 DEF Working, Leaving
  <2>4. PICK o \in resume(s, frame) : Continue(o)
    BY <1>3 DEF Resume
  <2>5. s' = o.s /\ app'.kind = "wg" /\ app'.c = app.c /\ (app'.phase # "off" <=> app.phase # "off")
    BY <2>3, <2>4, ContinueApp DEF Continue
  <2>6. CASE frame.at = "name"
    <3>1. SameKillSwitch(s, s')
      BY <1>0, <2>4, <2>5, <2>6, NameFresh DEF resume
    <3>2. s.fw = uninstall
      BY <2>3, <2>6, <3>1 DEF SameKillSwitch, SoftOpen, RulesOwned
    <3>3. QED BY <3>1, <3>2 DEF SameKillSwitch, RulesOwned, RulesWanted
  <2>7. CASE frame.at = "setup"
    <3>1. /\ o.at \in {"peer", "failed"} /\ s'.proc = s.proc
          /\ \/ SameKillSwitch(s, s')
             \/ /\ frame.c.ks /\ s.proc = "running"
                /\ SameKillSwitch(applyFirewallRules(s, frame.c), s')
      BY <1>0, <2>1, <2>4, <2>5, <2>7, SetupFresh DEF resume
    <3>2. applyFirewallRules(s, frame.c).strict = s.strict
      BY <1>0, <2>1, ApplyFirewallRulesFacts DEF Keeps
    <3>3. s.fw = uninstall
      BY <2>3, <2>7, <3>1, <3>2 DEF SameKillSwitch, SoftOpen, RulesOwned
    <3>4. CASE SameKillSwitch(s, s')
      BY <3>3, <3>4 DEF SameKillSwitch, RulesOwned, RulesWanted
    <3>5. CASE frame.c.ks /\ s.proc = "running"
      <4>1. frame'.at \notin {"name", "setup"}
        BY <2>4, <3>1 DEF Continue, NoFrame
      <4>2. QED BY <2>3, <2>5, <3>1, <3>5, <4>1 DEF RulesOwned, RulesWanted
    <3>6. QED BY <3>1, <3>4, <3>5
  <2>8. CASE frame.at = "peer"
    <3>1. o.at \in {"done", "failed"} /\ s'.proc = s.proc /\ SameKillSwitch(s, s')
      BY <1>0, <2>4, <2>5, <2>8, PeerFresh DEF resume
    <3>2. frame'.at = "none"
      BY <2>4, <3>1 DEF Continue, NoFrame
    <3>3. QED BY <2>3, <2>5, <3>1, <3>2 DEF SameKillSwitch, SoftOpen, RulesOwned, RulesWanted
  <2>9. QED BY <2>1, <2>6, <2>7, <2>8
<1>4. CASE CheckHandshake
  <2>1. s'.fw = s.fw /\ s'.strict = s.strict /\ s'.proc = s.proc /\ UNCHANGED frame
    BY <1>0, <1>4, EndEffect DEF CheckHandshake, SameKillSwitch
  <2>2. app' = app \/ (app.kind = "wg" /\ app.phase # "off" /\ Phase("up"))
    BY <1>4 DEF CheckHandshake, Phase
  <2>3. app'.kind = app.kind /\ app'.c = app.c
        /\ (app' = app \/ (app.kind = "wg" /\ app.phase # "off" /\ app'.phase = "up"))
    BY <2>2, LiveApp DEF Phase
  <2>4. QED BY <2>1, <2>3 DEF SoftOpen, RulesOwned, RulesWanted
<1>5. CASE ProcessReaped
  <2>1. s'.fw = s.fw /\ s'.strict = s.strict /\ UNCHANGED <<frame, app>> /\ s.proc = "killed"
    BY <1>0, <1>5, EndEffect DEF ProcessReaped, SameKillSwitch
  <2>2. QED BY <2>1 DEF SoftOpen, RulesOwned, RulesWanted
<1>6. QED BY <1>1, <1>2, <1>3, <1>4, <1>5 DEF DaemonStep

\* Every step keeps soft mode open.
LEMMA OpenStep ==
  ASSUME IInv, Session, SoftOpen, [Next]_vars
  PROVE  SoftOpen'
<1>1. CASE UNCHANGED vars
  BY <1>1 DEF vars, SoftOpen, Clear, RulesOwned, RulesWanted
<1>2. CASE Next
  <2> SUFFICES ASSUME Clear', ~s'.strict, "died" \notin marks' PROVE RulesOwned' /\ RulesWanted'
    BY DEF SoftOpen
  <2>0. Clear \/ Reboot \/ (StartTunnel /\ Clean /\ marks' = {})
    BY <1>2, ClearBefore
  <2>1. CASE Reboot
    <3>1. s'.fw = uninstall
      BY <2>1, EndEffect DEF Reboot, IInv, Sound
    <3>2. QED BY <3>1 DEF RulesOwned, RulesWanted
  <2>2. CASE StartTunnel
    BY <2>2, StartOpen DEF RulesOwned, RulesWanted
  <2>3. CASE ProcessDies
    <3>1. marks' = marks \cup {"died"}
      BY <2>3, MarkedClear DEF ProcessDies, Clear
    <3>2. QED BY <3>1
  <2>4. CASE Clear /\ ServiceStart
    <3>1. s.fw = uninstall /\ s' = init(s) /\ s \in ServiceStates
      BY <2>4 DEF ServiceStart, Session, DownFresh, IInv, Sound
    <3>2. s'.strict = s.strict
      BY <3>1, InitFacts DEF IInv
    <3>3. s'.fw = uninstall
      BY <3>1, <3>2, SoftEffect
    <3>4. QED BY <3>3 DEF RulesOwned, RulesWanted
  <2>5. CASE Clear /\ (ClientStep \/ DaemonStep) /\ ~StartTunnel
    <3>1. "died" \notin marks
      BY <2>5, MarkedClear DEF ClientStep, DaemonStep, UpdateVpnGateway, SetupRouting,
         OpenVpnFinished, Tun2SocksFinished, Stop, PrepareRequest, RefreshKillSwitch,
         ReadActivate, ReadDeactivate, Resume, CheckHandshake, ProcessReaped, Clear
    <3>2. CASE UpdateVpnGateway \/ SetupRouting \/ OpenVpnFinished \/ Tun2SocksFinished
      <4>1. s'.strict = s.strict
        BY <3>2, TunnelFacts DEF Calm, Keeps
      <4>2. QED BY <2>5, <3>1, <3>2, <4>1, TunnelOpen DEF SoftOpen
    <3>3. QED BY <2>5, <3>1, <3>2, StopOpen, DaemonOpen DEF ClientStep
  <2>6. QED BY <1>2, <2>0, <2>1, <2>2, <2>3, <2>4, <2>5, NoCrash DEF Next, FaultStep
<1>3. QED BY <1>1, <1>2

\* Soft mode is open in every state.
LEMMA OpenAlways == Spec => []SoftOpen
<1>1. Init => SoftOpen
  BY DEF Init, freshService, NoApp, Off, SoftOpen, RulesOwned, RulesWanted
<1>2. IInv /\ Session /\ SoftOpen /\ [Next]_vars => SoftOpen'
  BY OpenStep
<1>3. QED BY <1>1, <1>2, Invariant, SessionAlways, PTL DEF Spec

(***************************************************************************)
(* When nobody holds a tunnel and the daemon has read everything, nothing  *)
(* of one is left, and in soft mode no rule either unless the process died *)
(* by itself (Daemon::deactivate, deleteInterface, the protocols' stop).   *)
(***************************************************************************)
THEOREM NothingIsLeft == Spec => []NothingLeft
<1>1. Session /\ SoftOpen => NothingLeft
  <2> SUFFICES ASSUME Session, SoftOpen, app.phase = "off", Quiet, Clear
               PROVE  DaemonIdle /\ (s.strict \/ "died" \in marks \/ s.fw = uninstall)
    BY DEF NothingLeft, Clear
  <2>1. inbox = <<>> /\ inbox # <<Deactivate>> /\ Shape
    BY ReadFacts DEF Quiet, Session
  <2>2. DaemonIdle
    BY <2>1 DEF Shape, Resting, Asked, Recalled, Working, Leaving, Held
  <2>3. QED BY <2>2 DEF SoftOpen, RulesOwned, DaemonIdle
<1>2. QED BY <1>1, SessionAlways, OpenAlways, PTL

=============================================================================
