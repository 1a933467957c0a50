-------------------------- MODULE MCConnectionStack --------------------------
EXTENDS ConnectionStack, TLC

CONSTANTS s1, s2, s3, s4

TwoServers == <<s1, s2>>
ThreeServers == <<s1, s2, s3>>
FourServers == <<s1, s2, s3, s4>>
AllServers == Servers
ButSecond == Servers \ {s2}

WireguardEverywhere == [s \in Servers |-> "WireGuard"]
OpenVpnEverywhere == [s \in Servers |-> "OpenVpn"]
XrayEverywhere == [s \in Servers |-> "Xray"]
WireguardTwiceAndXray ==
    (s1 :> "WireGuard") @@ (s2 :> "WireGuard") @@ (s3 :> "Xray")
WireguardOpenVpnNone ==
    (s1 :> "WireGuard") @@ (s2 :> "OpenVpn") @@ (s3 :> "OpenVpn")
        @@ (s4 :> "none")

\* Two clicks and one event, or one click and two events.
FewInputs == clicks + events <= 3
==============================================================================
