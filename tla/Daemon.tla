------------------------------- MODULE Daemon -------------------------------
(***************************************************************************)
(* The WireGuard daemon inside the privileged service, on Linux            *)
(* (client/daemon/daemon.cpp, wireguardutilslinux.cpp).  Its part of the   *)
(* service's state s:                                                      *)
(*   s.proc       the amneziawg-go process: "off", "running", or "killed"  *)
(*                (SIGKILL sent, QProcess still says Running)              *)
(*   s.monitor    m_rtmonitor exists                                       *)
(*   s.conn       the SingleHop entry of m_connections, or NoConfig        *)
(*   s.date       no handshake is awaited any more: it has been seen, or   *)
(*                the timer that asks for it does not run                  *)
(*   s.excluded   m_excludedAddrSet: reference counts of excluded prefixes *)
(*   s.routes     the exclusion routes in the kernel's table               *)
(*   s.resolvers  the system resolvers are the tunnel's                    *)
(*                                                                         *)
(* Talking to amneziawg-go, activate() runs the event loop: it is cut here *)
(* at those waits.  Each part returns the set of its possible outcomes, an *)
(* outcome being the state and where the activation now is: waiting at     *)
(* "name", "setup", "peer" or "switch", or over ("done", "failed").        *)
(*                                                                         *)
(* deactivate() waits as well, for the answer to deletePeer's command.     *)
(* Here activate and deactivate stand for the whole, as long as only the   *)
(* kill switch is called meanwhile (module Service): what deactivate does  *)
(* before that wait touches no rule, so that it may as well come after the *)
(* call.  Where another connection may be served meanwhile, the two are cut*)
(* there too: deactivateFirst and activateFirst, which wait at "down" and  *)
(* "takeover".  The wait of getPeerStatus is passed over.                  *)
(***************************************************************************)
EXTENDS KillSwitch

CONSTANTS Hosts,    \* server addresses
          Ranges    \* the sites written as a prefix, address/length

ASSUME SitesAssumption == Ranges \subseteq Sites /\ Hosts \cap Sites = {}
ASSUME NamesAssumption == {"none", "lan", "dhcp", "inet"} \cap (Hosts \cup Sites) = {}

Addresses == Hosts \cup Sites
Configs   == [host : Hosts, split : 0 .. 2, ks : BOOLEAN]
NoConfig  == [host |-> "none", split |-> 0, ks |-> FALSE]

NoneExcluded == [a \in Addresses |-> 0]

Outcome(s, at, c, last) == [s |-> s, at |-> at, c |-> c, last |-> last]
Failed(s, c)            == {Outcome(s, "failed", c, NoConfig)}

(***************************************************************************)
(* Exclusion routes.  The refusal of addExclusionRoute is not looked at.   *)
(* The removal for a server switch goes through QHostAddress, which cannot *)
(* parse a prefix: ranges keep their count and their route.                *)
(***************************************************************************)
addExclusionRoutes(s, A) ==
  [s EXCEPT !.excluded = [a \in Addresses |->
                            IF a \in A /\ (s.monitor \/ @[a] > 0) THEN @[a] + 1 ELSE @[a]],
            !.routes   = @ \cup {a \in A : s.monitor /\ s.excluded[a] = 0}]

\* Mutant: the route goes although somebody else still counts on it.
delExclusionRoutesUncounted(s, A) ==
  [s EXCEPT !.excluded = [a \in Addresses |-> IF a \in A THEN 0 ELSE @[a]],
            !.routes   = @ \ A]

delExclusionRoutes(s, A) ==
  LET B == A \ Ranges
  IN  [s EXCEPT !.excluded = [a \in Addresses |->
                                IF a \in B THEN (IF @[a] > 1 THEN @[a] - 1 ELSE 0) ELSE @[a]],
                !.routes   = @ \ {a \in B : s.monitor /\ s.excluded[a] <= 1}]

\* updatePeer and deletePeer route the server's address around the tunnel themselves.
addPeerRoute(s, c) == IF s.monitor THEN [s EXCEPT !.routes = @ \cup {c.host}] ELSE s

applyFirewallRules(s, c) ==
  LET all == c.split # 1
      fw0 == IF s.fw.installed THEN s.fw ELSE install
      fw1 == setAnchorEnabled(fw0, Both, {blockAll}, all)
      fw2 == updateAllowNets(setAnchorEnabled(fw1, IPv4, {allowNets}, all),
                             IF all THEN ExcludedAddresses(c) ELSE {})
      fw3 == updateBlockNets(setAnchorEnabled(fw2, IPv4, {blockNets}, ~all),
                             IF all THEN {} ELSE Sites)
  IN  [s EXCEPT !.fw = TunnelRules(fw3)]

(***************************************************************************)
(* deactivate: the resolvers and the peer go first, with the route of its  *)
(* server; when amneziawg-go has answered, the exclusions, the connection  *)
(* and the interface.  deleteInterface drops the route monitor, and gives  *)
(* up when the process is not there, before it reaches the firewall.       *)
(***************************************************************************)
deletePeer(s) ==
  [s EXCEPT !.resolvers = FALSE, !.routes = IF s.monitor THEN @ \ {s.conn.host} ELSE @]

\* Whatever connection there is by now: the one that was to end, or a newer one.
deleteInterface(s) ==
  LET gone == {a \in Addresses : s.monitor /\ s.excluded[a] > 0}
      t    == [s EXCEPT !.routes = @ \ gone, !.excluded = NoneExcluded, !.conn = NoConfig,
                        !.date = FALSE, !.monitor = FALSE]
  IN  IF s.proc = "off" THEN t ELSE disableKillSwitch([t EXCEPT !.proc = "off"])

\* Mutant: the rules are left to the client.
deactivateKeepsRules(s) ==
  [s EXCEPT !.routes = {}, !.excluded = NoneExcluded, !.conn = NoConfig, !.date = FALSE,
            !.resolvers = FALSE, !.monitor = FALSE, !.proc = "off"]

deactivate(s) == deleteInterface(deletePeer(s))

\* Without a connection there is no peer to wait for.
deactivateFirst(s) ==
  IF s.conn = NoConfig THEN Outcome(deactivate(s), "done", NoConfig, NoConfig)
  ELSE Outcome(deletePeer(s), "down", NoConfig, NoConfig)

(***************************************************************************)
(* activate, from its beginning to its first wait, and from wait to wait.  *)
(***************************************************************************)
bringUp(s, c) ==   \* addresses, link, exclusions; then updatePeer's command
  Failed(s, c) \cup
  {Outcome(addPeerRoute(addExclusionRoutes(s, ExcludedAddresses(c)), c), "peer", c, NoConfig)}

addInterface(s, c) ==
  Failed(s, c) \cup {Outcome([s EXCEPT !.proc = "running"], "name", c, NoConfig)}

activateOff(s, c) == IF s.proc = "off" THEN addInterface(s, c) ELSE bringUp(s, c)

\* activate's own deactivation, after its wait; it fails with deleteInterface.
takeOver(s, c) ==
  IF s.proc = "off" THEN Failed(deleteInterface(s), c) ELSE activateOff(deleteInterface(s), c)

\* supportServerSwitching compares keys, addresses and gateways, which belong to a server and
\* may change: they differ between servers and may differ for one.  The server's public key
\* changes with them, so that switchServer has no peer to delete.
switchServer(s, c) ==
  IF s.conn.host # c.host THEN {}
  ELSE {Outcome(addPeerRoute(addExclusionRoutes(s, ExcludedAddresses(c)), c), "switch", c, s.conn)}

activate(s, c) ==
  IF s.conn = NoConfig THEN activateOff(s, c)
  ELSE switchServer(s, c) \cup takeOver(deletePeer(s), c)

activateFirst(s, c) ==
  IF s.conn = NoConfig THEN activateOff(s, c)
  ELSE switchServer(s, c) \cup {Outcome(deletePeer(s), "takeover", c, NoConfig)}

\* waitForTunnelName: the process died, did not open its socket in time, or did.
nameReady(s, c) ==
  IF s.proc # "running" THEN Failed(s, c)
  ELSE Failed([s EXCEPT !.proc = "killed"], c)
       \cup {Outcome([s EXCEPT !.monitor = TRUE], "setup", c, NoConfig)}

setupReply(s, c) ==
  Failed(s, c) \cup
  (IF s.proc = "running" THEN bringUp(IF c.ks THEN applyFirewallRules(s, c) ELSE s, c) ELSE {})

\* updatePeer's answer; then resolvers and routes (updateRoutePrefix needs the monitor).
peerReply(s, c) ==
  LET t == [s EXCEPT !.resolvers = TRUE]
  IN  Failed(s, c) \cup
      (IF s.proc # "running" THEN {}
       ELSE Failed(t, c) \cup
            (IF s.monitor
             THEN {Outcome([t EXCEPT !.conn = c, !.date = FALSE], "done", c, NoConfig)}
             ELSE {}))

switchReply(s, c, last) ==
  LET t == [delExclusionRoutes(s, ExcludedAddresses(last)) EXCEPT
               !.conn = c, !.date = FALSE, !.resolvers = FALSE]
  IN  Failed(s, c) \cup
      (IF s.proc # "running" THEN {}
       ELSE Failed([t EXCEPT !.date = s.date], c) \cup   \* the timer is not started
            {Outcome([t EXCEPT !.resolvers = TRUE], "done", c, NoConfig)})

\* What the activation, or deactivation, waiting as f does when its wait is over.
resume(s, f) ==
  CASE f.at = "name"   -> nameReady(s, f.c)
    [] f.at = "setup"  -> setupReply(s, f.c)
    [] f.at = "peer"   -> peerReply(s, f.c)
    [] f.at = "switch" -> switchReply(s, f.c, f.last)
    [] f.at = "takeover" -> takeOver(s, f.c)
    [] f.at = "down"   -> {Outcome(deleteInterface(s), "done", NoConfig, NoConfig)}

\* checkHandshake, polled every 250 ms until the peer has answered.
handshakeDue(s)   == s.conn # NoConfig /\ ~s.date /\ s.proc = "running"
checkHandshake(s) == [s EXCEPT !.date = TRUE]

(***************************************************************************)
(* What a death of the service process, and a reboot, leave of its state.  *)
(* systemd ends the whole control group: amneziawg-go goes too.            *)
(***************************************************************************)
processGone(s) == [s EXCEPT !.proc = "off"]

serviceGone(s) ==
  [s EXCEPT !.proc = "off", !.monitor = FALSE, !.conn = NoConfig, !.date = FALSE,
            !.excluded = NoneExcluded, !.resolvers = FALSE, !.ranges = {}]

rebooted(s) == [serviceGone(s) EXCEPT !.fw = uninstall, !.routes = {}]

freshService ==
  [fw |-> uninstall, ranges |-> {}, strict |-> FALSE, proc |-> "off", monitor |-> FALSE,
   conn |-> NoConfig, date |-> FALSE, excluded |-> NoneExcluded, routes |-> {},
   resolvers |-> FALSE]

=============================================================================
