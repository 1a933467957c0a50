----------------------------- MODULE KillSwitch -----------------------------
(***************************************************************************)
(* The kill switch of the privileged service on Linux                      *)
(* (service/server/killswitch.cpp).  It is a singleton; its state is part  *)
(* of the service's state s:                                               *)
(*   s.fw      the iptables rules; they outlive the service process        *)
(*   s.ranges  m_allowedRanges, what resetAllowedRange remembers           *)
(*   s.strict  Conf/strictKillSwitchEnabled in the service's own settings  *)
(*             file; it outlives the service process and a reboot          *)
(* The operators are pure: each returns the service state after the call.  *)
(* A call is atomic: the service is single-threaded and none of these      *)
(* functions runs an event loop.                                           *)
(*                                                                         *)
(* A configuration c has the server c.host, the split-tunnelling mode      *)
(* c.split (0 off, 1 only the listed sites use the tunnel, 2 all but the   *)
(* listed sites do) and the kill-switch option c.ks the client sent along. *)
(***************************************************************************)
EXTENDS LinuxFirewall

CONSTANT Sites   \* the sites of the split-tunnelling list

\* disableKillSwitch, strict mode: everything but loopback is blocked.
CloseRules(fw) ==
  LET on  == enableAnchors(enableAnchors(fw, Both, {allowLoopback, blockAll}), IPv6, {blockIPv6})
      off == disableAnchors(on, Both, {allowMarkedXray, allowDHCP, allowLAN})
  IN  disableAnchors(off, IPv4, {allowNets, blockNets, allowVPN, blockDNS, allowDNS})

\* Mutant: the mode is not looked at.
disableKillSwitchAlways(s) == [s EXCEPT !.fw = uninstall, !.ranges = {}]

disableKillSwitch(s) ==
  [s EXCEPT !.fw = IF s.strict THEN CloseRules(@) ELSE uninstall, !.ranges = {}]

\* Blocks without switching off what a tunnel may have switched on, Xray's mark excepted.
disableAllTraffic(s) ==
  LET fw  == IF s.fw.installed THEN s.fw ELSE install
      on  == enableAnchors(fw, Both, {blockAll, allowLoopback})
      off == disableAnchors(on, Both, {allowMarkedXray})
  IN  [s EXCEPT !.fw = enableAnchors(off, IPv6, {blockIPv6}), !.ranges = {}]

\* Mutant: the service starts without looking at its settings.
initNot(s) == s

\* LocalServer's constructor, at service start.
init(s) == IF s.strict THEN disableAllTraffic(s) ELSE s

refresh(s, enabled) ==
  LET t == [s EXCEPT !.strict = enabled]
  IN  IF enabled THEN disableAllTraffic(t) ELSE disableKillSwitch(t)

resetAllowedRange(s, ranges) ==
  [s EXCEPT !.ranges = ranges,
            !.fw = updateAllowNets(enableAnchors(@, IPv4, {allowNets}), ranges)]

addAllowedRange(s, ranges) == resetAllowedRange(s, s.ranges \cup ranges)

\* The rules that both tunnels' set-ups switch on whatever the configuration.
TunnelRules(fw) ==
  LET both == enableAnchors(fw, Both, {allowLoopback, allowDHCP, allowLAN})
      v4   == enableAnchors(both, IPv4, {allowVPN, blockDNS, allowDNS})
  IN  enableAnchors(v4, IPv6, {blockIPv6})

\* The servers and sites reached outside the tunnel.
ExcludedAddresses(c) == {c.host} \cup (IF c.split = 2 THEN Sites ELSE {})

\* Mutant: a tunnel with a split-tunnelling list is not sealed at all.
enableKillSwitchUnsplit(s, c) ==
  [s EXCEPT !.fw = TunnelRules(setAnchorEnabled(IF @.installed THEN @ ELSE install,
                                                Both, {blockAll}, c.split = 0))]

\* OpenVPN and Xray call it once the tunnel device is there.  The blockNets
\* anchor is given the flag of blockAll: the sites of mode 1 are listed in it,
\* but it is off.
enableKillSwitch(s, c) ==
  LET all   == c.split # 1
      fw0   == IF s.fw.installed THEN s.fw ELSE install
      fw1   == setAnchorEnabled(fw0, Both, {blockAll}, all)
      fw2   == setAnchorEnabled(fw1, IPv4, {allowNets, blockNets}, all)
      fw3   == updateAllowNets(fw2, IF all THEN ExcludedAddresses(c) ELSE {})
      fw4   == updateBlockNets(fw3, IF all THEN {} ELSE Sites)
  IN  [s EXCEPT !.fw = TunnelRules(enableAnchors(fw4, Both, {allowMarkedXray}))]

=============================================================================
