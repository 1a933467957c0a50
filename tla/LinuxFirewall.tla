--------------------------- MODULE LinuxFirewall ---------------------------
(***************************************************************************)
(* The iptables rules of the privileged service on Linux                   *)
(* (client/platforms/linux/daemon/linuxfirewall.cpp).                      *)
(*                                                                         *)
(* install() links one placeholder chain per anchor into the root chain,   *)
(* in a fixed order; an anchor is switched on by linking its rules into    *)
(* its placeholder.  A packet is decided by the first rule that matches    *)
(* it on the way down, so an anchor is named here by its position.         *)
(*                                                                         *)
(* The tables are one record:                                              *)
(*   installed            the root chain is linked into OUTPUT             *)
(*   on                   the <<anchor, IP version>> pairs switched on     *)
(*   allowNets, blockNets the destinations listed in those two chains      *)
(* The operators below are pure: each returns the tables after the call.   *)
(***************************************************************************)
EXTENDS Naturals

\* The anchors, in the order in which install() links them.
allowLoopback   == 1
allowDNS        == 2
blockDNS        == 3
allowLAN        == 4
allowDHCP       == 5
blockIPv6       == 6
allowVPN        == 7
allowMarkedXray == 8
blockNets       == 9
allowNets       == 10
blockAll        == 11

Anchors   == 1 .. 11
Rejecting == {blockDNS, blockIPv6, blockNets, blockAll}
Accepting == Anchors \ Rejecting

IPv4 == {4}
IPv6 == {6}
Both == {4, 6}

\* The chains that install() creates: three exist for IPv4 only, one for IPv6
\* only.  Linking a chain that does not exist fails and changes nothing.
Chains == (Anchors \X Both)
             \ (({allowDNS, blockNets, allowNets} \X IPv6) \cup ({blockIPv6} \X IPv4))

uninstall == [installed |-> FALSE, on |-> {}, allowNets |-> {}, blockNets |-> {}]
install   == [uninstall EXCEPT !.installed = TRUE]

\* setAnchorEnabled on every anchor of A; without the chains it has no effect.
enableAnchors(fw, ip, A) ==
  IF fw.installed THEN [fw EXCEPT !.on = @ \cup ((A \X ip) \cap Chains)] ELSE fw

disableAnchors(fw, ip, A) == [fw EXCEPT !.on = @ \ (A \X ip)]

setAnchorEnabled(fw, ip, A, enabled) ==
  IF enabled THEN enableAnchors(fw, ip, A) ELSE disableAnchors(fw, ip, A)

updateAllowNets(fw, nets) ==
  IF fw.installed THEN [fw EXCEPT !.allowNets = nets] ELSE fw

updateBlockNets(fw, nets) ==
  IF fw.installed THEN [fw EXCEPT !.blockNets = nets] ELSE fw

(***************************************************************************)
(* A packet leaving the machine: the interface it leaves by, its IP        *)
(* version, its destination, whether it is a DNS query ("listed": to one   *)
(* of the servers given to the last updateDNSServers) and whether it       *)
(* carries Xray's mark.                                                    *)
(***************************************************************************)
Packet(via, v, dst, dns, marked) ==
  [via |-> via, v |-> v, dst |-> dst, dns |-> dns, marked |-> marked]

Matches(fw, p, a) ==
  \/ a = allowLoopback   /\ p.via = "lo"
  \/ a = allowDNS        /\ p.via = "vpn" /\ p.dns = "listed"
  \/ a = blockDNS        /\ p.dns # "no"
  \/ a = allowLAN        /\ p.dst = "lan"
  \/ a = allowDHCP       /\ p.dst = "dhcp"
  \/ a = blockIPv6       /\ p.via # "lo"
  \/ a = allowVPN        /\ p.via = "vpn"
  \/ a = allowMarkedXray /\ p.marked
  \/ a = blockNets       /\ p.dst \in fw.blockNets
  \/ a = allowNets       /\ p.dst \in fw.allowNets
  \/ a = blockAll

Hits(fw, p, a) == <<a, p.v>> \in fw.on /\ Matches(fw, p, a)

\* The first anchor that hits the packet rejects it.
Rejected(fw, p) ==
  /\ fw.installed
  /\ \E r \in Rejecting :
       /\ Hits(fw, p, r)
       /\ \A a \in Accepting : Hits(fw, p, a) => r < a

=============================================================================
