------------------------------ MODULE VpnCommon ------------------------------
(***************************************************************************)
(* What the user-interface thread and the VPN thread of the desktop client  *)
(* share: the enumeration of connection states, the error codes the         *)
(* protocols report, the list of servers with the protocol each one uses,   *)
(* and the identifier of the default server, which the user-interface       *)
(* thread writes and both threads read.                                     *)
(***************************************************************************)
EXTENDS Integers, Sequences

CONSTANTS OrderedServerIds,  \* the repository's servers in list order
          KindOf,            \* server -> protocol of its default container
          Preparable         \* servers for which prepareConnection succeeds

Servers == {OrderedServerIds[i] : i \in DOMAIN OrderedServerIds}

\* "none" is a container VpnProtocol::factory has no protocol for.
ProtocolKind == {"WireGuard", "OpenVpn", "Xray", "none"}

ASSUME ServersAssumption ==
    /\ OrderedServerIds \in Seq(Servers)
    /\ Len(OrderedServerIds) > 0
    /\ \A i, j \in DOMAIN OrderedServerIds :
           OrderedServerIds[i] = OrderedServerIds[j] => i = j
    /\ KindOf \in [Servers -> ProtocolKind]
    /\ Preparable \subseteq Servers

ConnectionState == {"Unknown", "Disconnected", "Preparing", "Connecting",
                    "Connected", "Disconnecting", "Reconnecting", "Error"}

NoError == 0
InternalError == 101
AmneziaServiceConnectionFailed == 603
OpenVpnConfigMissing == 500
OpenVpnUnknownError == 701
AddressPoolError == 703
VpnTunnelDidNotComeUpError == 704
XrayExecutableCrashed == 803
Tun2SockExecutableCrashed == 804
ApiConfigDownloadError == 1100

\* Codes a protocol reports, by setLastError or by returning them from start.
ProtocolErrorCodes ==
    {InternalError, AmneziaServiceConnectionFailed, OpenVpnConfigMissing,
     OpenVpnUnknownError, AddressPoolError, VpnTunnelDidNotComeUpError,
     XrayExecutableCrashed, Tun2SockExecutableCrashed}

\* With one code of the subscription API (11xx) for all of them.
ErrorCode == ProtocolErrorCodes \cup {ApiConfigDownloadError}

isSubscriptionError(code) == code >= 1100 /\ code < 1200

\* An attempt is one openConnectionRequested: which launch it was, of which
\* server. Launch 0 stands for "no attempt yet".
Attempt == [no : Nat, server : Servers]

NoAttempt == [no |-> 0, server |-> OrderedServerIds[1]]

\* Requests queued for the VPN thread.
Connect(a) == [op |-> "connect", attempt |-> a]
Disconnect == [op |-> "disconnect"]
SetState(s) == [op |-> "set", state |-> s]

\* The states the user-interface thread asks for.
RequestedState == {"Preparing", "Disconnected"}

Command == [op : {"connect"}, attempt : Attempt]
           \cup [op : {"disconnect"}]
           \cup [op : {"set"}, state : RequestedState]

\* Signals and invocations queued for the user-interface thread. A signal
\* carries the attempt it stems from, which the code cannot see.
StateSignal(s, a) == [type |-> "state", state |-> s, attempt |-> a]
ErrorSignal(e, a) == [type |-> "error", code |-> e, attempt |-> a]
OpenInvocation == [type |-> "open"]

Signal == [type : {"state"}, state : ConnectionState, attempt : Attempt]
          \cup [type : {"error"}, code : ErrorCode, attempt : Attempt]

Event == Signal \cup {OpenInvocation}

VARIABLES
    defaultServer,     \* SecureServersRepository::defaultServerId
    posted,            \* event queue of the VPN thread
    inbox              \* event queue of the user-interface thread
==============================================================================
