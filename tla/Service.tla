------------------------------ MODULE Service ------------------------------
(***************************************************************************)
(* The privileged service on Linux and the calls it gets from the client:  *)
(* the kill switch (over QtRO), the WireGuard daemon (over its own local   *)
(* socket) and the settings.  The service is one thread, but an activation *)
(* of the daemon that waits for amneziawg-go runs the event loop, and the  *)
(* kill switch's calls are served meanwhile.                               *)
(*                                                                         *)
(*   s      the state of the service (modules KillSwitch and Daemon)       *)
(*   up     the service process runs                                       *)
(*   frame  the activation that is waiting inside the daemon               *)
(*   inbox  the commands of the WireGuard socket not read yet              *)
(*   app    the client's protocol object: its kind, phase, configuration   *)
(*   marks  history, for the properties only: what has disturbed the       *)
(*          service since it was last idle and clean                       *)
(*   faults how many faults have happened, bounded by MaxFaults            *)
(*                                                                         *)
(* The client's own settings are not state here: restoring a backup or     *)
(* clearing the settings changes them at any time without telling the      *)
(* service, so each use of them below takes either value.                  *)
(***************************************************************************)
EXTENDS Daemon, Sequences

CONSTANTS Gateway,    \* the address of the subscription gateway
          Options,    \* the split-tunnelling modes and kill-switch options in use
          MaxFaults   \* bound on crashes, reboots, deaths of the tunnel process, lost commands

ASSUME BoundsAssumption  == MaxFaults \in Nat /\ Options \subseteq [split : 0 .. 2, ks : BOOLEAN]
ASSUME GatewayAssumption == Gateway \notin Addresses \cup {"none", "lan", "dhcp", "inet"}

VARIABLES s, up, frame, inbox, app, marks, faults

vars == <<s, up, frame, inbox, app, marks, faults>>

Kinds   == {"wg", "ovpn", "xray"}
NoFrame == [at |-> "none", c |-> NoConfig, last |-> NoConfig]
Off(kind) == [kind |-> kind, phase |-> "off", c |-> NoConfig]
NoApp     == Off("none")

Activate(c) == [type |-> "activate", c |-> c]
Deactivate  == [type |-> "deactivate", c |-> NoConfig]

\* The daemon has nothing of the WireGuard socket left to do.
Quiet == frame = NoFrame /\ inbox = <<>>

\* The daemon holds nothing of a tunnel.
DaemonIdle ==
  /\ s.conn = NoConfig /\ s.proc = "off" /\ ~s.monitor /\ ~s.resolvers
  /\ s.excluded = NoneExcluded /\ s.routes = {}

Clean == Quiet /\ DaemonIdle /\ (s.strict \/ s.fw = uninstall)

\* Nobody may have told the daemon to let go of what it holds.
Untold == {"crash", "overlap", "unsent"}

\* After one of these nothing more is remembered until the service is clean.
Marked(m) ==
  IF marks \cap Untold # {} THEN marks ELSE IF m \in Untold THEN {m} ELSE marks \cup {m}

\* Something goes wrong; how often is bounded.
Fault == faults < MaxFaults /\ faults' = faults + 1

Init ==
  /\ s = freshService
  /\ up = TRUE
  /\ frame = NoFrame
  /\ inbox = <<>>
  /\ app = NoApp
  /\ marks = {}
  /\ faults = 0

(***************************************************************************)
(* The client's protocol objects.  There is one at a time; a stopped one   *)
(* stays until the next is made, when it is stopped again and destroyed.   *)
(*                                                                         *)
(* Destroying a WireGuard object closes its socket.  If that happens while *)
(* its activation waits, the daemon's event loop frees the object that is  *)
(* reading the socket, and what it does on return is undefined: here it    *)
(* reads on, or drops the commands that were left (it may also crash).     *)
(***************************************************************************)
LostRest ==
  IF frame # NoFrame THEN {<<>>}
  ELSE {SubSeq(inbox, 1, k) : k \in {j \in 1 .. Len(inbox) : inbox[j].type = "activate"}}

\* The old object's last words, then the new one's.
New(kind, c, words) ==
  /\ up /\ app.phase = "off"
  /\ app' = [kind |-> kind, phase |-> "starting", c |-> c]
  /\ \/ inbox' = (IF app.kind = "wg" THEN Append(inbox, Deactivate) ELSE inbox) \o words
        /\ UNCHANGED faults
     \/ app.kind = "wg" /\ Fault /\ \E q \in LostRest : inbox' = q \o words
  /\ marks' = IF Clean THEN {} ELSE IF Quiet THEN marks ELSE Marked("overlap")
  /\ UNCHANGED <<up, frame>>

stopAgain == IF app.kind \in {"ovpn", "xray"} THEN disableKillSwitch(s) ELSE s

\* WireguardProtocol::start, over a socket that is open.  How one WireGuard session follows
\* another while the daemon is still busy is the subject of module WireguardSession.
StartWireguard(c) == Quiet /\ New("wg", c, <<Activate(c)>>) /\ s' = stopAgain

\* Mutant: the server is allowed first, and the clean-up forgets it.
StartOpenVpnSwapped(c) ==
  /\ New("ovpn", c, <<>>)
  /\ s' = disableKillSwitch(addAllowedRange(stopAgain, {c.host}))

\* OpenVpnProtocol::start
StartOpenVpn(c) ==
  /\ New("ovpn", c, <<>>)
  /\ s' = addAllowedRange(disableKillSwitch(stopAgain), {c.host})

\* XrayProtocol::start
StartXray(c) == New("xray", c, <<>>) /\ s' = stopAgain

Phase(p) == app' = [app EXCEPT !.phase = p]

armed(t, c) == IF c.ks THEN enableKillSwitch(t, c) ELSE t

\* OpenVpnProtocol::updateVpnGateway, at the server's PUSH_REPLY; again after a soft restart.
UpdateVpnGateway ==
  /\ up /\ app.kind = "ovpn" /\ app.phase \in {"starting", "up"}
  /\ s' = armed(s, app.c)
  /\ Phase("up")
  /\ UNCHANGED <<up, frame, inbox, marks, faults>>

\* XrayProtocol::setupRouting; on a failure of one of its steps, stop().
SetupRouting ==
  /\ up /\ app.kind = "xray" /\ app.phase = "starting"
  /\ \/ s' = armed(s, app.c) /\ Phase("up")
     \/ s' \in {disableKillSwitch(s), disableKillSwitch(armed(s, app.c))} /\ Phase("failed")
  /\ UNCHANGED <<up, frame, inbox, marks, faults>>

\* The openvpn process ends by itself: the protocol reports it and does nothing else.
OpenVpnFinished ==
  /\ app.kind = "ovpn" /\ app.phase \in {"starting", "up"}
  /\ Phase(IF app.phase = "up" THEN "dropped" ELSE "failed")
  /\ UNCHANGED <<s, up, frame, inbox, marks, faults>>

\* tun2socks ends by itself: the protocol stops itself.
Tun2SocksFinished ==
  /\ up /\ app.kind = "xray" /\ app.phase \in {"starting", "up"}
  /\ s' = disableKillSwitch(s)
  /\ Phase(IF app.phase = "up" THEN "dropped" ELSE "failed")
  /\ UNCHANGED <<up, frame, inbox, marks, faults>>

(***************************************************************************)
(* The object is stopped; without a service nothing is heard.  WireGuard's *)
(* controller says nothing to the daemon while it has not read the answer  *)
(* to its first request, which it sent together with the activation.       *)
(***************************************************************************)
Stop ==
  /\ app.phase # "off"
  /\ app' = Off(app.kind)
  /\ IF app.kind = "wg"
     THEN \/ inbox' = (IF up THEN Append(inbox, Deactivate) ELSE inbox) /\ UNCHANGED <<marks, faults>>
          \/ app.phase = "starting" /\ Fault /\ marks' = Marked("unsent") /\ UNCHANGED inbox
     ELSE UNCHANGED <<inbox, marks, faults>>
  /\ s' = IF up THEN stopAgain ELSE s
  /\ UNCHANGED <<up, frame>>

(***************************************************************************)
(* The client's other calls.                                               *)
(***************************************************************************)
\* GatewayController::prepareRequest, with the client's strict mode on
PrepareRequest ==
  /\ up
  /\ s' = addAllowedRange(s, {Gateway})
  /\ marks' = IF app.phase = "off" THEN marks ELSE Marked("gateway")
  /\ UNCHANGED <<up, frame, inbox, app, faults>>

(***************************************************************************)
(* The kill-switch settings change, as far as the service hears of it:     *)
(* toggleStrictKillSwitch sends the new mode, toggleKillSwitch sends strict*)
(* only if it switches on and the client's mode is strict.  The tile of    *)
(* the home page does it at any time, tunnel or not.                       *)
(***************************************************************************)
RefreshKillSwitch(enabled) ==
  /\ up
  /\ s' = refresh(s, enabled)
  /\ marks' = IF app.phase = "off" THEN marks ELSE Marked("toggle")
  /\ UNCHANGED <<up, frame, inbox, app, faults>>

(***************************************************************************)
(* The daemon's own steps.                                                 *)
(***************************************************************************)
\* Mutant: an activation that is over is still waited for.
ContinueStillWaiting(o) ==
  /\ s' = o.s
  /\ frame' = [at |-> o.at, c |-> o.c, last |-> o.last]
  /\ UNCHANGED app

\* The activation is where outcome o leaves it; a failure reaches the client.
Continue(o) ==
  /\ s' = o.s
  /\ frame' = IF o.at \in {"done", "failed"} THEN NoFrame
              ELSE [at |-> o.at, c |-> o.c, last |-> o.last]
  /\ app' = IF o.at = "failed" /\ app.kind = "wg" /\ app.phase # "off"
            THEN [app EXCEPT !.phase = "failed"] ELSE app

ReadActivate ==
  /\ up /\ frame = NoFrame /\ inbox # <<>> /\ Head(inbox).type = "activate"
  /\ inbox' = Tail(inbox)
  /\ \E o \in activate(s, Head(inbox).c) : Continue(o)
  /\ UNCHANGED <<up, marks, faults>>

ReadDeactivate ==
  /\ up /\ frame = NoFrame /\ inbox # <<>> /\ Head(inbox).type = "deactivate"
  /\ inbox' = Tail(inbox)
  /\ s' = deactivate(s)
  /\ UNCHANGED <<up, frame, app, marks, faults>>

Resume ==
  /\ up /\ frame # NoFrame
  /\ \E o \in resume(s, frame) : Continue(o)
  /\ UNCHANGED <<up, inbox, marks, faults>>

CheckHandshake ==
  /\ up /\ handshakeDue(s)
  /\ s' = checkHandshake(s)
  /\ app' = IF app.kind = "wg" /\ app.phase = "starting" THEN [app EXCEPT !.phase = "up"] ELSE app
  /\ UNCHANGED <<up, frame, inbox, marks, faults>>

(***************************************************************************)
(* Faults.                                                                 *)
(***************************************************************************)
Dropped == IF app.phase = "up" THEN [app EXCEPT !.phase = "dropped"]
           ELSE IF app.phase = "starting" THEN [app EXCEPT !.phase = "failed"] ELSE app

\* amneziawg-go ends by itself.  Nobody listens to backendFailure: nothing else happens.
ProcessDies ==
  /\ s.proc = "running" /\ Fault
  /\ s' = processGone(s)
  /\ app' = IF app.kind = "wg" /\ app.phase = "up" THEN Dropped ELSE app
  /\ marks' = Marked("died")
  /\ UNCHANGED <<up, frame, inbox>>

\* The process that activate() has killed is reaped.
ProcessReaped ==
  /\ s.proc = "killed"
  /\ s' = processGone(s)
  /\ UNCHANGED <<up, frame, inbox, app, marks, faults>>

\* The client is gone without a word.
ClientCrash ==
  /\ app # NoApp /\ Fault
  /\ app' = NoApp
  /\ inbox' \in {inbox} \cup LostRest
  /\ marks' = Marked("crash")
  /\ UNCHANGED <<s, up, frame>>

ServiceEnds(t) ==
  /\ up /\ Fault
  /\ s' = t
  /\ up' = FALSE /\ frame' = NoFrame /\ inbox' = <<>>
  /\ app' = Dropped
  /\ marks' = Marked("crash")

ServiceCrash == ServiceEnds(serviceGone(s))

\* aboutToQuit: Daemon::deactivate
ServiceQuit == ServiceEnds(serviceGone(deactivate(s)))

\* systemd restarts the service; LocalServer's constructor calls KillSwitch::init.
ServiceStart ==
  /\ ~up
  /\ up' = TRUE
  /\ s' = init(s)
  /\ UNCHANGED <<frame, inbox, app, marks, faults>>

Reboot ==
  /\ Fault
  /\ s' = rebooted(s)
  /\ up' = FALSE /\ frame' = NoFrame /\ inbox' = <<>> /\ app' = NoApp /\ marks' = {}

StartTunnel ==
  \E h \in Hosts, x \in Options :
    LET c == [host |-> h, split |-> x.split, ks |-> x.ks]
    IN  StartWireguard(c) \/ StartOpenVpn(c) \/ StartXray(c)

ClientStep ==
  \/ StartTunnel \/ UpdateVpnGateway \/ SetupRouting \/ OpenVpnFinished \/ Tun2SocksFinished
  \/ Stop \/ PrepareRequest
  \/ \E b \in BOOLEAN : RefreshKillSwitch(b)

DaemonStep == ReadActivate \/ ReadDeactivate \/ Resume \/ CheckHandshake \/ ProcessReaped

FaultStep == ProcessDies \/ ClientCrash \/ ServiceCrash \/ ServiceQuit \/ Reboot

Next == ClientStep \/ DaemonStep \/ ServiceStart \/ FaultStep

Spec == Init /\ [][Next]_vars

-----------------------------------------------------------------------------
\* The state of the service has the shape its functions expect.
ServiceStates ==
  [fw : [installed : BOOLEAN, on : SUBSET Chains,
         allowNets : SUBSET (Addresses \cup {Gateway}), blockNets : SUBSET Addresses],
   ranges : SUBSET (Addresses \cup {Gateway}), strict : BOOLEAN,
   proc : {"off", "running", "killed"}, monitor : BOOLEAN, conn : Configs \cup {NoConfig},
   date : BOOLEAN, excluded : [Addresses -> Nat], routes : SUBSET Addresses,
   resolvers : BOOLEAN]

Frames == [at : {"name", "setup", "peer", "switch"}, c : Configs, last : Configs \cup {NoConfig}]
             \cup {NoFrame}

TypeOK ==
  /\ s \in ServiceStates
  /\ up \in BOOLEAN
  /\ frame \in Frames
  /\ inbox \in Seq([type : {"activate"}, c : Configs] \cup {Deactivate})
  /\ app \in [kind : Kinds, phase : {"starting", "up", "dropped", "failed"}, c : Configs]
               \cup {Off(k) : k \in Kinds \cup {"none"}}
  /\ marks \subseteq Untold \cup {"gateway", "toggle", "died"}
  /\ faults \in 0 .. MaxFaults

(***************************************************************************)
(* The refinement: the rules as TrafficPolicy sees them.                   *)
(***************************************************************************)
RulesOf(fw) == IF ~fw.installed THEN "none"
               ELSE IF <<blockAll, 4>> \in fw.on THEN "full" ELSE "sites"

Policy == INSTANCE TrafficPolicy WITH rules <- RulesOf(s.fw), strict <- s.strict, alive <- up

(***************************************************************************)
(* Whatever the client, the daemon and the faults do, and in whatever      *)
(* order, the service's firewall moves only as the policy of the kill      *)
(* switch allows: killswitch.cpp's calls, interleaved with the daemon's.   *)
(***************************************************************************)
ImplementsPolicy == Policy!Spec

(***************************************************************************)
(* Traffic that would show the user's address or queries: IPv6 to the      *)
(* internet, and queries to foreign resolvers.  IPv6 within the local      *)
(* network is not among it, queries to a resolver there included: the      *)
(* tunnel's rules let it pass, allowLAN standing for both families before  *)
(* blockIPv6 and blockDNS for IPv4 only.                                   *)
(***************************************************************************)
Outside(v, dst, dns) == Packet("eth", v, dst, dns, FALSE)
Leaks    == {Outside(4, "inet", "other"), Outside(4, "lan", "other"), Outside(6, "inet", "no"),
             Outside(6, "inet", "other")}
Ordinary == Outside(4, "inet", "no")

NoLeaks(fw) == \A p \in Leaks : Rejected(fw, p)

(***************************************************************************)
(* In strict mode a running service rejects, in every state, IPv6 to the   *)
(* internet and queries to foreign resolvers (the packets of Leaks; not    *)
(* IPv6 within the local network), and ordinary traffic too unless a tunnel*)
(* of mode 1 asked for its rules (init, refresh, disableKillSwitch,        *)
(* enableKillSwitch, applyFirewallRules in any order, with crashes and     *)
(* restarts).                                                              *)
(***************************************************************************)
StrictSealed ==
  s.strict /\ up => NoLeaks(s.fw) /\ (Rejected(s.fw, Ordinary) \/ RulesOf(s.fw) = "sites")

(***************************************************************************)
(* A tunnel whose kill switch is on is sealed from the moment it is up     *)
(* until it is let go of, also while it is down without the user having    *)
(* asked for it (not Xray's, which stops itself), provided nobody touched  *)
(* the settings meanwhile, it was not started into another tunnel's        *)
(* clean-up, and no crash left an older tunnel behind.  Sealed: the packets*)
(* of Leaks are rejected, and ordinary ones unless the tunnel is of mode 1.*)
(* Then the listed sites are rejected outside it, for WireGuard only:      *)
(* enableKillSwitch, which OpenVPN and Xray call, leaves blockNets off     *)
(* (ListedSitesSealed).                                                    *)
(***************************************************************************)
TunnelSealed ==
  (/\ app.c.ks /\ (app.phase = "up" \/ (app.phase = "dropped" /\ app.kind # "xray"))
   /\ marks \cap (Untold \cup {"toggle"}) = {})
  => /\ NoLeaks(s.fw)
     /\ IF app.c.split # 1 THEN Rejected(s.fw, Ordinary)
        ELSE app.kind = "wg" => \A x \in Sites : Rejected(s.fw, Outside(4, x, "no"))

(***************************************************************************)
(* The firewall never cuts the tunnel off from its server, from the start  *)
(* of an OpenVPN tunnel and once the others are up.  Xray's own packets    *)
(* carry its mark.  (Of the sites that go around a tunnel of mode 2 this   *)
(* would not hold: a request to the gateway replaces the allowed networks, *)
(* which leaves the server of an OpenVPN tunnel among them, not the sites.)*)
(***************************************************************************)
ToServer == Packet("eth", 4, app.c.host, "no", app.kind = "xray")

ServerReachable ==
  (/\ app.phase = "up" \/ (app.phase = "starting" /\ app.kind = "ovpn")
   /\ marks \cap (Untold \cup {"toggle", "died"}) = {}
   /\ app.kind = "wg" => "gateway" \notin marks
   /\ app.c.ks \/ ~s.strict)
  => ~Rejected(s.fw, ToServer)

(***************************************************************************)
(* When nobody holds a tunnel and the daemon has read everything, nothing  *)
(* of one is left: connection, process, routes, resolvers, and in soft     *)
(* mode no rule of the firewall, unless the tunnel process died by itself  *)
(* (deleteInterface then returns before it reaches the rules).             *)
(***************************************************************************)
NothingLeft ==
  (up /\ app.phase = "off" /\ Quiet /\ marks \cap Untold = {})
  => /\ DaemonIdle
     /\ s.strict \/ "died" \in marks \/ s.fw = uninstall

(***************************************************************************)
(* The exclusion routes of the connection that is up are all in the table  *)
(* and counted, also when it took over from a connection that a crashed    *)
(* client left behind (switchServer); and there are no others, each counted*)
(* once, unless a crash or an overlap left some (m_excludedAddrSet).       *)
(***************************************************************************)
RoutesFollowConnection ==
  LET mine == ExcludedAddresses(s.conn)
  IN  (s.conn # NoConfig /\ Quiet /\ app.phase = "up" /\ app.kind = "wg")
      => /\ mine \subseteq s.routes
         /\ \A a \in mine : s.excluded[a] > 0
         /\ \/ marks \cap Untold # {}
            \/ /\ s.routes = mine
               /\ \A a \in Addresses : s.excluded[a] = IF a \in mine THEN 1 ELSE 0

(***************************************************************************)
(* PageSettingsSplitTunneling.qml says of mode 1 that the listed sites are *)
(* accessed through the VPN: under a kill switch, then, not around it,     *)
(* whatever the protocol (enableKillSwitch, applyFirewallRules).           *)
(***************************************************************************)
ListedSitesSealed ==
  app.phase = "up" /\ app.c.ks /\ app.c.split = 1 /\ marks = {}
  => \A x \in Sites : Rejected(s.fw, Outside(4, x, "no"))

(***************************************************************************)
(* PageHome.qml says of the kill switch that all internet is blocked when  *)
(* the VPN suddenly drops.                                                 *)
(***************************************************************************)
DropStaysSealed ==
  app.phase = "dropped" /\ app.c.ks /\ app.c.split # 1 /\ marks = {}
  => Rejected(s.fw, Ordinary)

=============================================================================
