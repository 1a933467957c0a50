-------------------------- MODULE VpnConnection_proofs --------------------------
(***************************************************************************)
(* The VPN thread, operator by operator: each one keeps the types of the    *)
(* thread's state and the rule that routes for the tunnel's DNS servers     *)
(* need a protocol whose tunnel is, or just was, up.                        *)
(***************************************************************************)
EXTENDS VpnConnection, SequenceTheorems, TLAPS

NoDns(c) == "dns" \notin c.routes

TunnelStates == {"Connected", "Reconnecting", "Disconnecting"}

RoutesOK(c) ==
    "dns" \in c.routes => c.kind # "none" /\ c.pstate \in TunnelStates

VpnOK(c) == c \in VpnState /\ RoutesOK(c)

-----------------------------------------------------------------------------
(* State changes. *)

\* A signal is appended to what the slot emits.
LEMMA EmitOK ==
    ASSUME NEW c, VpnOK(c), NEW e \in Signal
    PROVE  /\ VpnOK(Emit(c, e))
           /\ Emit(c, e).routes = c.routes
           /\ Emit(c, e).kind = c.kind
           /\ Emit(c, e).pstate = c.pstate
           /\ Emit(c, e).attempt = c.attempt
<1>1. c \in VpnState /\ c.out \in Seq(Signal)
  BY DEF VpnOK, VpnState
<1>2. Append(c.out, e) \in Seq(Signal)
  BY <1>1, AppendProperties
<1>3. Emit(c, e) \in VpnState
  BY <1>1, <1>2 DEF Emit, VpnState
<1>4. /\ Emit(c, e).routes = c.routes
      /\ Emit(c, e).kind = c.kind
      /\ Emit(c, e).pstate = c.pstate
      /\ Emit(c, e).attempt = c.attempt
  BY <1>1 DEF Emit, VpnState
<1> QED BY <1>3, <1>4 DEF VpnOK, RoutesOK

\* Entering "Disconnected" or "Error" takes the routes away, only "Connected"
\* adds some (VpnConnection::onConnectionStateChanged).
LEMMA RoutesChanged ==
    ASSUME NEW c \in VpnState, NEW s \in ConnectionState
    PROVE  LET d == onConnectionStateChanged(c, s)
           IN  /\ d \in VpnState
               /\ d.kind = c.kind /\ d.pstate = c.pstate
               /\ d.attempt = c.attempt
               /\ s \in {"Disconnected", "Error"} => NoDns(d)
               /\ s # "Connected" /\ NoDns(c) => NoDns(d)
               /\ s # "Connected" => d.routes \subseteq c.routes
<1>1. CASE s = "Connected" /\ RoutesDns
  BY <1>1, VpnAssumption DEF onConnectionStateChanged, VpnState
<1>2. CASE s \in {"Disconnected", "Error"}
  BY <1>2 DEF onConnectionStateChanged, VpnState, NoDns
<1>3. CASE ~(s = "Connected" /\ RoutesDns) /\ s \notin {"Disconnected", "Error"}
  BY <1>3 DEF onConnectionStateChanged
<1> QED BY <1>1, <1>2, <1>3

\* VpnConnection::setConnectionState leaves the protocol object alone.
LEMMA StateSet ==
    ASSUME NEW c \in VpnState, NEW s \in ConnectionState, NEW a \in Attempt
    PROVE  LET d == setConnectionState(c, s, a)
           IN  /\ d \in VpnState
               /\ d.kind = c.kind /\ d.pstate = c.pstate
               /\ d.attempt = c.attempt
               /\ s \in {"Disconnected", "Error"} => NoDns(d)
               /\ s # "Connected" /\ NoDns(c) => NoDns(d)
               /\ s # "Connected" /\ VpnOK(c) => VpnOK(d)
<1> DEFINE d == onConnectionStateChanged(c, s)
           e == [d EXCEPT !.state = s]
           f == Emit(e, StateSignal(s, a))
<1>1. /\ d \in VpnState
      /\ d.kind = c.kind /\ d.pstate = c.pstate /\ d.attempt = c.attempt
      /\ s \in {"Disconnected", "Error"} => NoDns(d)
      /\ s # "Connected" /\ NoDns(c) => NoDns(d)
      /\ s # "Connected" => d.routes \subseteq c.routes
  BY RoutesChanged
<1> HIDE DEF d
<1>2. /\ e \in VpnState
      /\ e.kind = d.kind /\ e.pstate = d.pstate /\ e.attempt = d.attempt
      /\ e.routes = d.routes /\ e.out = d.out
  BY <1>1 DEF VpnState
<1> HIDE DEF e
<1>3. StateSignal(s, a) \in Signal
  BY DEF StateSignal, Signal
<1>4. e.out \in Seq(Signal)
  BY <1>2 DEF VpnState
<1>5. Append(e.out, StateSignal(s, a)) \in Seq(Signal)
  BY <1>3, <1>4, AppendProperties
<1>6. /\ f \in VpnState
      /\ f.kind = e.kind /\ f.pstate = e.pstate /\ f.attempt = e.attempt
      /\ f.routes = e.routes
  BY <1>2, <1>5 DEF Emit, VpnState
<1> HIDE DEF f
<1>7. setConnectionState(c, s, a) = d \/ setConnectionState(c, s, a) = f
  BY DEF setConnectionState, d, e, f
<1> QED BY <1>1, <1>2, <1>6, <1>7 DEF VpnOK, RoutesOK, NoDns

\* VpnProtocol::setConnectionState; "Connecting" is entered without routes.
LEMMA ProtocolStateSet ==
    ASSUME NEW c, VpnOK(c), NEW s \in ConnectionState,
           c.kind # "none" \/ s # "Connected",
           s \in TunnelStates \cup {"Disconnected", "Error"} \/ NoDns(c)
    PROVE  LET d == protocolState(c, s)
           IN  /\ VpnOK(d)
               /\ d.kind = c.kind /\ d.attempt = c.attempt
               /\ s \in {"Disconnected", "Error"} => NoDns(d)
               /\ s # "Connected" /\ NoDns(c) => NoDns(d)
               /\ d.pstate = s \/ d.pstate = c.pstate
               /\ s = "Disconnected" => d.pstate = s
<1> DEFINE e == [c EXCEPT !.pstate = s, !.timer = TimerAfter(s, @)]
           f == setConnectionState(e, s, c.attempt)
<1>1. c \in VpnState /\ c.attempt \in Attempt /\ c.timer \in BOOLEAN
  BY DEF VpnOK, VpnState
<1>2. TimerAfter(s, c.timer) \in BOOLEAN
  BY <1>1 DEF TimerAfter
<1>3. /\ e \in VpnState
      /\ e.kind = c.kind /\ e.pstate = s /\ e.attempt = c.attempt
      /\ e.routes = c.routes
  BY <1>1, <1>2 DEF VpnState
<1> HIDE DEF e
<1>4. /\ f \in VpnState
      /\ f.kind = c.kind /\ f.pstate = s /\ f.attempt = c.attempt
      /\ s \in {"Disconnected", "Error"} => NoDns(f)
      /\ s # "Connected" /\ NoDns(c) => NoDns(f)
  BY <1>1, <1>3, StateSet DEF NoDns
<1>5. VpnOK(f)
  BY <1>4 DEF VpnOK, RoutesOK, TunnelStates, NoDns
<1> HIDE DEF f
<1>6. CASE c.pstate = s
  BY <1>1, <1>6 DEF protocolState, VpnOK, RoutesOK, TunnelStates, NoDns
<1>7. CASE c.pstate = "Disconnected" /\ s = "Disconnecting"
  BY <1>7 DEF protocolState
<1>8. CASE ~(c.pstate = s \/ (c.pstate = "Disconnected" /\ s = "Disconnecting"))
  <2>1. protocolState(c, s) = f
    BY <1>8 DEF protocolState, f, e
  <2> QED BY <1>4, <1>5, <2>1
<1> QED BY <1>6, <1>7, <1>8

\* An error ends at "Error" and without routes (VpnProtocol::setLastError).
LEMMA LastErrorSet ==
    ASSUME NEW c, VpnOK(c), NEW e \in ErrorCode
    PROVE  LET d == setLastError(c, e)
           IN  VpnOK(d) /\ NoDns(d) /\ d.kind = c.kind /\ d.attempt = c.attempt
<1> DEFINE f == [c EXCEPT !.lastError = e]
<1>1. f \in VpnState
  BY DEF VpnOK, VpnState
<1>2. /\ f.kind = c.kind /\ f.attempt = c.attempt
      /\ f.routes = c.routes /\ f.pstate = c.pstate
  BY DEF VpnOK, VpnState
<1>3. VpnOK(f)
  BY <1>1, <1>2 DEF VpnOK, RoutesOK
<1>4. "Error" \in ConnectionState
  BY DEF ConnectionState
<1> HIDE DEF f
<1>5. LET d == protocolState(f, "Error")
      IN  VpnOK(d) /\ NoDns(d) /\ d.kind = f.kind /\ d.attempt = f.attempt
  BY <1>2, <1>3, <1>4, ProtocolStateSet
<1> QED BY <1>2, <1>5 DEF setLastError, f

\* An error code is signalled to the user-interface thread.
LEMMA ErrorSignalled ==
    ASSUME NEW c, VpnOK(c), NEW e \in ErrorCode
    PROVE  LET d == protocolError(c, e)
           IN  /\ VpnOK(d) /\ d.kind = c.kind /\ d.pstate = c.pstate
               /\ d.attempt = c.attempt /\ d.routes = c.routes
<1>1. ErrorSignal(e, c.attempt) \in Signal
  BY DEF VpnOK, VpnState, ErrorSignal, Signal
<1> QED BY <1>1, EmitOK DEF protocolError

-----------------------------------------------------------------------------
(* Stopping a protocol. *)

\* WireguardProtocol::stop
LEMMA WireguardStopped ==
    ASSUME NEW c, VpnOK(c), c.kind # "none"
    PROVE  LET d == stopWireguard(c)
           IN  VpnOK(d) /\ NoDns(d) /\ d.kind = c.kind /\ d.attempt = c.attempt
<1> DEFINE e == [cancelTrafficProbe(c) EXCEPT
                     !.late = @ \/ c.proc = "running",
                     !.proc = "none"]
<1>1. c \in VpnState /\ RoutesOK(c)
  BY DEF VpnOK
<1>2. e \in VpnState
  BY <1>1 DEF VpnState, cancelTrafficProbe
<1>3. /\ e.kind = c.kind /\ e.attempt = c.attempt
      /\ e.routes = c.routes /\ e.pstate = c.pstate
  BY <1>1 DEF VpnState, cancelTrafficProbe
<1>4. VpnOK(e)
  BY <1>1, <1>2, <1>3 DEF VpnOK, RoutesOK
<1>5. "Disconnected" \in ConnectionState
  BY DEF ConnectionState
<1> HIDE DEF e
<1>6. LET d == protocolState(e, "Disconnected")
      IN  VpnOK(d) /\ NoDns(d) /\ d.kind = e.kind /\ d.attempt = e.attempt
  BY <1>3, <1>4, <1>5, ProtocolStateSet
<1> QED BY <1>3, <1>6 DEF stopWireguard, e

\* XrayProtocol::stop
LEMMA XrayStopped ==
    ASSUME NEW c, VpnOK(c), c.kind # "none"
    PROVE  LET d == stopXray(c)
           IN  VpnOK(d) /\ NoDns(d) /\ d.kind = c.kind /\ d.attempt = c.attempt
<1> DEFINE e == [c EXCEPT !.proc = "none"]
<1>1. c \in VpnState /\ RoutesOK(c)
  BY DEF VpnOK
<1>2. e \in VpnState
  BY <1>1 DEF VpnState
<1>3. /\ e.kind = c.kind /\ e.attempt = c.attempt
      /\ e.routes = c.routes /\ e.pstate = c.pstate
  BY <1>1 DEF VpnState
<1>4. VpnOK(e)
  BY <1>1, <1>2, <1>3 DEF VpnOK, RoutesOK
<1>5. "Disconnected" \in ConnectionState
  BY DEF ConnectionState
<1> HIDE DEF e
<1>6. LET d == protocolState(e, "Disconnected")
      IN  VpnOK(d) /\ NoDns(d) /\ d.kind = e.kind /\ d.attempt = e.attempt
  BY <1>3, <1>4, <1>5, ProtocolStateSet
<1> QED BY <1>3, <1>6 DEF stopXray, e

\* OpenVpnProtocol::cleanupResources
LEMMA ResourcesCleaned ==
    ASSUME NEW c, VpnOK(c)
    PROVE  LET d == cleanupResources(c)
           IN  /\ VpnOK(d) /\ d.kind = c.kind /\ d.attempt = c.attempt
               /\ d.routes = c.routes /\ d.pstate = c.pstate
<1> DEFINE d == cleanupResources(c)
<1>1. c \in VpnState /\ RoutesOK(c)
  BY DEF VpnOK
<1>2. /\ d \in VpnState
      /\ d.kind = c.kind /\ d.attempt = c.attempt
      /\ d.routes = c.routes /\ d.pstate = c.pstate
  BY <1>1 DEF VpnState, cleanupResources
<1> HIDE DEF d
<1> QED BY <1>1, <1>2 DEF VpnOK, RoutesOK, d

\* OpenVpnProtocol::stop goes through "Disconnecting" unless it was idle.
LEMMA OpenVpnStopped ==
    ASSUME NEW c, VpnOK(c), c.kind # "none"
    PROVE  LET d == stopOpenVpn(c)
           IN  VpnOK(d) /\ NoDns(d) /\ d.kind = c.kind /\ d.attempt = c.attempt
<1> DEFINE f == protocolState(c, "Disconnecting")
           d == IF WasActive(c) THEN f ELSE c
           e == cleanupResources(d)
           g == protocolState(e, "Disconnected")
<1>1. "Disconnecting" \in ConnectionState /\ "Disconnected" \in ConnectionState
  BY DEF ConnectionState
<1>2. VpnOK(f) /\ f.kind = c.kind /\ f.attempt = c.attempt
  BY <1>1, ProtocolStateSet DEF TunnelStates
<1> HIDE DEF f
<1>3. VpnOK(d) /\ d.kind = c.kind /\ d.attempt = c.attempt
  BY <1>2
<1>4. ~WasActive(c) => d = c
  OBVIOUS
<1> HIDE DEF d
<1>5. /\ VpnOK(e) /\ e.kind = c.kind /\ e.attempt = c.attempt
      /\ e.routes = d.routes /\ e.pstate = d.pstate
  BY <1>3, ResourcesCleaned
<1> HIDE DEF e
<1>6. VpnOK(g) /\ NoDns(g) /\ g.kind = c.kind /\ g.attempt = c.attempt
  BY <1>1, <1>5, ProtocolStateSet
<1> HIDE DEF g
<1>7. CASE WasActive(c) \/ e.pstate = "Disconnecting"
  <2>1. stopOpenVpn(c) = g
    BY <1>7 DEF stopOpenVpn, g, e, d, f
  <2> QED BY <1>6, <2>1
<1>8. CASE ~(WasActive(c) \/ e.pstate = "Disconnecting")
  <2>1. stopOpenVpn(c) = e
    BY <1>8 DEF stopOpenVpn, e, d, f
  <2>2. e.pstate \notin TunnelStates
    BY <1>4, <1>5, <1>8 DEF WasActive, TunnelStates
  <2> QED BY <1>5, <2>1, <2>2 DEF VpnOK, RoutesOK, NoDns
<1> QED BY <1>7, <1>8

\* No route for the tunnel's DNS servers survives stopping the protocol.
LEMMA Stopped ==
    ASSUME NEW c, VpnOK(c)
    PROVE  LET d == Stop(c)
           IN  VpnOK(d) /\ NoDns(d) /\ d.kind = c.kind /\ d.attempt = c.attempt
<1>1. c.kind \in ProtocolKind
  BY DEF VpnOK, VpnState
<1>2. CASE c.kind = "WireGuard"
  <2>1. Stop(c) = stopWireguard(c)
    BY <1>2 DEF Stop
  <2> QED BY <1>2, <2>1, WireguardStopped
<1>3. CASE c.kind = "OpenVpn"
  <2>1. Stop(c) = stopOpenVpn(c)
    BY <1>3 DEF Stop
  <2> QED BY <1>3, <2>1, OpenVpnStopped
<1>4. CASE c.kind = "Xray"
  <2>1. Stop(c) = stopXray(c)
    BY <1>4 DEF Stop
  <2> QED BY <1>4, <2>1, XrayStopped
<1>5. CASE c.kind = "none"
  <2>1. Stop(c) = c
    BY <1>5 DEF Stop
  <2> QED BY <1>5, <2>1 DEF VpnOK, RoutesOK, NoDns
<1> QED BY <1>1, <1>2, <1>3, <1>4, <1>5 DEF ProtocolKind

-----------------------------------------------------------------------------
(* Starting a protocol. *)

\* WireguardProtocol::failConnection reports once and stops.
LEMMA ConnectionFailed ==
    ASSUME NEW c, VpnOK(c), c.kind # "none", NEW e \in ErrorCode
    PROVE  VpnOK(failConnection(c, e))
<1> DEFINE d == cancelTrafficProbe([c EXCEPT !.reported = TRUE])
           f == setLastError(d, e)
           g == protocolError(f, e)
<1>1. c \in VpnState /\ RoutesOK(c)
  BY DEF VpnOK
<1>2. /\ d \in VpnState
      /\ d.kind = c.kind /\ d.routes = c.routes /\ d.pstate = c.pstate
  BY <1>1 DEF VpnState, cancelTrafficProbe
<1>3. VpnOK(d) /\ d.kind # "none"
  BY <1>1, <1>2 DEF VpnOK, RoutesOK
<1> HIDE DEF d
<1>4. VpnOK(f) /\ f.kind # "none"
  BY <1>3, LastErrorSet
<1> HIDE DEF f
<1>5. VpnOK(g) /\ g.kind # "none"
  BY <1>4, ErrorSignalled
<1> HIDE DEF g
<1>6. VpnOK(stopWireguard(g))
  BY <1>5, WireguardStopped
<1> QED BY <1>6 DEF failConnection, g, f, d

\* Error codes a start returns are codes a protocol may report.
LEMMA StartCodes ==
    {InternalError, AddressPoolError, OpenVpnConfigMissing,
     AmneziaServiceConnectionFailed, XrayExecutableCrashed,
     OpenVpnUnknownError, VpnTunnelDidNotComeUpError,
     Tun2SockExecutableCrashed} \subseteq ErrorCode
BY DEF ErrorCode, ProtocolErrorCodes

\* "Connecting" is entered by a protocol without routes, and a running process
\* changes nothing about that.
LEMMA ConnectingEntered ==
    ASSUME NEW c, VpnOK(c), c.kind # "none", NoDns(c),
           NEW p \in {"none", "running", "exiting"}
    PROVE  LET d == protocolState(c, "Connecting")
               e == [d EXCEPT !.proc = p]
           IN  /\ VpnOK(d) /\ NoDns(d) /\ d.kind = c.kind
               /\ VpnOK(e) /\ NoDns(e) /\ e.kind = c.kind
<1> DEFINE d == protocolState(c, "Connecting")
           e == [d EXCEPT !.proc = p]
<1>1. "Connecting" \in ConnectionState
  BY DEF ConnectionState
<1>2. VpnOK(d) /\ NoDns(d) /\ d.kind = c.kind
  BY <1>1, ProtocolStateSet
<1> HIDE DEF d
<1>3. d \in VpnState
  BY <1>2 DEF VpnOK
<1>4. /\ e \in VpnState
      /\ e.kind = d.kind /\ e.routes = d.routes /\ e.pstate = d.pstate
  BY <1>3 DEF VpnState
<1> HIDE DEF e
<1>5. VpnOK(e) /\ NoDns(e)
  BY <1>2, <1>4 DEF VpnOK, RoutesOK, NoDns
<1> QED BY <1>2, <1>4, <1>5 DEF d, e

\* WireguardProtocol::start
LEMMA WireguardStarted ==
    ASSUME NEW c, VpnOK(c), c.kind # "none", NoDns(c),
           NEW r \in startWireguard(c)
    PROVE  VpnOK(r.after) /\ r.error \in ErrorCode \cup {NoError}
<1> DEFINE b == [c EXCEPT !.reported = FALSE]
           d == protocolState(b, "Connecting")
           e == [d EXCEPT !.proc = "running", !.awaited = TRUE]
           f == failConnection(d, AddressPoolError)
<1>1. c \in VpnState /\ RoutesOK(c)
  BY DEF VpnOK
<1>2. /\ b \in VpnState
      /\ b.kind = c.kind /\ b.routes = c.routes /\ b.pstate = c.pstate
  BY <1>1 DEF VpnState
<1>3. VpnOK(b) /\ b.kind # "none" /\ NoDns(b)
  BY <1>1, <1>2 DEF VpnOK, RoutesOK, NoDns
<1> HIDE DEF b
<1>4. VpnOK(d) /\ d.kind # "none" /\ NoDns(d)
  BY <1>3, ConnectingEntered
<1>5. AddressPoolError \in ErrorCode
  BY StartCodes
<1> HIDE DEF d
<1>6. VpnOK(e) /\ VpnOK(f)
  <2>1. e \in VpnState /\ e.routes = d.routes
    BY <1>4 DEF VpnOK, VpnState
  <2>2. VpnOK(e)
    BY <1>4, <2>1 DEF VpnOK, RoutesOK, NoDns
  <2> QED BY <1>4, <1>5, <2>2, ConnectionFailed
<1> HIDE DEF e, f
<1>7. r \in {[after |-> e, error |-> NoError],
             [after |-> f, error |-> AddressPoolError]}
  BY DEF startWireguard, f, e, d, b
<1> QED BY <1>4, <1>5, <1>6, <1>7

\* OpenVpnProtocol::start
LEMMA OpenVpnStarted ==
    ASSUME NEW c, VpnOK(c), c.kind # "none", NoDns(c),
           NEW r \in startOpenVpn(c)
    PROVE  VpnOK(r.after) /\ r.error \in ErrorCode \cup {NoError}
<1> DEFINE d == cleanupResources(c)
           missing == setLastError(d, OpenVpnConfigMissing)
           alone == [d EXCEPT !.proc = "none"]
           begun == protocolState(alone, "Connecting")
           refused == setLastError(begun, AmneziaServiceConnectionFailed)
           running == [protocolState(d, "Connecting") EXCEPT !.proc = "running"]
<1>1. /\ VpnOK(d) /\ d.kind # "none" /\ NoDns(d) /\ d \in VpnState
      /\ RoutesOK(d)
  BY ResourcesCleaned DEF NoDns, VpnOK
<1> HIDE DEF d
<1>2. /\ OpenVpnConfigMissing \in ErrorCode
      /\ AmneziaServiceConnectionFailed \in ErrorCode
  BY StartCodes
<1>3. VpnOK(missing)
  BY <1>1, <1>2, LastErrorSet
<1>4. /\ alone \in VpnState
      /\ alone.kind = d.kind /\ alone.routes = d.routes
      /\ alone.pstate = d.pstate
  BY <1>1 DEF VpnState
<1>5. VpnOK(alone) /\ alone.kind # "none" /\ NoDns(alone)
  BY <1>1, <1>4 DEF VpnOK, RoutesOK, NoDns
<1> HIDE DEF alone
<1>6. VpnOK(begun) /\ begun.kind # "none"
  BY <1>5, ConnectingEntered
<1> HIDE DEF begun
<1>7. VpnOK(refused)
  BY <1>2, <1>6, LastErrorSet
<1>8. VpnOK(running)
  BY <1>1, ConnectingEntered
<1> HIDE DEF missing, refused, running
<1>9. r \in {[after |-> missing, error |-> OpenVpnConfigMissing],
             [after |-> d, error |-> AmneziaServiceConnectionFailed],
             [after |-> refused, error |-> AmneziaServiceConnectionFailed],
             [after |-> running, error |-> NoError]}
  BY DEF startOpenVpn, missing, refused, running, begun, alone, d
<1> QED BY <1>1, <1>2, <1>3, <1>7, <1>8, <1>9

\* XrayProtocol::start
LEMMA XrayStarted ==
    ASSUME NEW c, VpnOK(c), c.kind # "none", NoDns(c),
           NEW r \in startXray(c)
    PROVE  VpnOK(r.after) /\ r.error \in ErrorCode \cup {NoError}
<1> DEFINE d == protocolState(c, "Connecting")
           e == [d EXCEPT !.proc = "running"]
<1>1. VpnOK(d) /\ VpnOK(e)
  BY ConnectingEntered
<1>2. XrayExecutableCrashed \in ErrorCode
  BY StartCodes
<1> HIDE DEF d, e
<1>3. r \in {[after |-> d, error |-> XrayExecutableCrashed],
             [after |-> e, error |-> NoError]}
  BY DEF startXray, d, e
<1> QED BY <1>1, <1>2, <1>3

\* What connectToVpn and reconnectToVpn make of a start keeps the rule.
LEMMA StartedOK ==
    ASSUME NEW c, VpnOK(c), NoDns(c), NEW r \in Start(c)
    PROVE  VpnOK(Started(r))
<1>1. c.kind # "none" /\ c.kind \in ProtocolKind
  BY DEF Start, VpnOK, VpnState
<1>2. VpnOK(r.after) /\ r.error \in ErrorCode \cup {NoError}
  <2>1. CASE c.kind = "WireGuard"
    <3>1. r \in startWireguard(c)
      BY <2>1 DEF Start
    <3> QED BY <1>1, <3>1, WireguardStarted
  <2>2. CASE c.kind = "OpenVpn"
    <3>1. r \in startOpenVpn(c)
      BY <2>2 DEF Start
    <3> QED BY <1>1, <3>1, OpenVpnStarted
  <2>3. CASE c.kind = "Xray"
    <3>1. r \in startXray(c)
      BY <2>3 DEF Start
    <3> QED BY <1>1, <3>1, XrayStarted
  <2> QED BY <1>1, <2>1, <2>2, <2>3 DEF ProtocolKind
<1>3. CASE r.error = NoError
  BY <1>2, <1>3 DEF Started
<1>4. CASE r.error # NoError
  <2> DEFINE d == r.after
             e == setConnectionState(d, "Error", d.attempt)
  <2>1. /\ d \in VpnState /\ d.attempt \in Attempt /\ VpnOK(d)
        /\ r.error \in ErrorCode
    BY <1>2, <1>4 DEF VpnOK, VpnState
  <2>2. "Error" \in ConnectionState
    BY DEF ConnectionState
  <2> HIDE DEF d
  <2>3. VpnOK(e)
    BY <2>1, <2>2, StateSet
  <2> HIDE DEF e
  <2>4. ErrorSignal(r.error, d.attempt) \in Signal
    BY <2>1 DEF ErrorSignal, Signal
  <2>5. VpnOK(Emit(e, ErrorSignal(r.error, d.attempt)))
    BY <2>3, <2>4, EmitOK
  <2> QED BY <1>4, <2>5 DEF Started, e, d
<1> QED BY <1>3, <1>4

-----------------------------------------------------------------------------
(* The slots of the thread. *)

VpnInv == VpnOK(vpn) /\ inbox \in Seq(Event)

\* The end of a slot hands its signals over.
LEMMA DoneKeeps ==
    ASSUME VpnInv, NEW c, VpnOK(c), Done(c)
    PROVE  VpnInv'
<1>1. c \in VpnState /\ c.out \in Seq(Signal) /\ RoutesOK(c)
  BY DEF VpnOK, VpnState
<1>2. <<>> \in Seq(Signal)
  BY EmptySeq
<1>3. /\ vpn' \in VpnState
      /\ vpn'.kind = c.kind /\ vpn'.routes = c.routes
      /\ vpn'.pstate = c.pstate
  BY <1>1, <1>2 DEF Done, VpnState
<1>4. RoutesOK(vpn')
  BY <1>1, <1>3 DEF RoutesOK
<1>5. c.out \in Seq(Event)
  BY <1>1, SeqMonotonic DEF Event
<1>6. inbox' \in Seq(Event)
  BY <1>5, ConcatProperties DEF Done, VpnInv
<1> QED BY <1>3, <1>4, <1>6 DEF VpnInv, VpnOK

\* A new protocol object begins without routes.
LEMMA FactoryOK ==
    ASSUME NEW c, VpnOK(c), NoDns(c), NEW a \in Attempt,
           NEW garbage \in Uninitialised, NEW late \in BOOLEAN
    PROVE  LET d == factory(c, a, garbage, late)
           IN  VpnOK(d) /\ NoDns(d) /\ d.kind = KindOf[a.server]
<1> DEFINE d == factory(c, a, garbage, late)
<1>1. c \in VpnState
  BY DEF VpnOK
<1>2. KindOf[a.server] \in ProtocolKind
  BY ServersAssumption DEF Attempt
<1>3. garbage \in ErrorCode \cup {NoError} /\ "Unknown" \in ConnectionState
  BY DEF ConnectionState, Uninitialised, ErrorCode
<1>4. d \in VpnState /\ d.routes = c.routes /\ d.kind = KindOf[a.server]
  <2>1. CASE late = FALSE
    <3>1. d = factory(c, a, garbage, FALSE)
      BY <2>1
    <3> HIDE DEF d
    <3> QED BY <1>1, <1>2, <1>3, <3>1 DEF VpnState, factory
  <2>2. CASE late = TRUE
    BY <1>1, <1>2, <1>3, <2>2 DEF VpnState, factory
  <2> QED BY <2>1, <2>2
<1> HIDE DEF d
<1>5. VpnOK(d) /\ NoDns(d)
  BY <1>4 DEF VpnOK, RoutesOK, NoDns
<1> QED BY <1>4, <1>5 DEF d

\* VpnConnection::connectToVpn
LEMMA ConnectKeeps ==
    ASSUME VpnInv, NEW a \in Attempt, connectToVpn(a)
    PROVE  VpnInv'
<1>0. PICK garbage \in Uninitialised,
           late \in {FALSE, Stop(setConnectionState(vpn, "Connecting", a)).late} :
         LET c == factory(Stop(setConnectionState(vpn, "Connecting", a)), a,
                          garbage, late)
         IN  \/ Done(setConnectionState(c, "Error", a))
             \/ \E r \in Start(c) : Done(Started(r))
  BY DEF connectToVpn
<1> DEFINE b == setConnectionState(vpn, "Connecting", a)
           d == Stop(b)
           c == factory(d, a, garbage, late)
           e == setConnectionState(c, "Error", a)
<1>1. vpn \in VpnState /\ VpnOK(vpn)
  BY DEF VpnInv, VpnOK
<1>2. "Connecting" \in ConnectionState /\ "Error" \in ConnectionState
  BY DEF ConnectionState
<1>3. VpnOK(b)
  BY <1>1, <1>2, StateSet
<1> HIDE DEF b
<1>4. VpnOK(d) /\ NoDns(d)
  BY <1>3, Stopped
<1>4a. late \in {FALSE, d.late}
  BY DEF b
<1> HIDE DEF d
<1>4b. late \in BOOLEAN
  BY <1>4, <1>4a DEF VpnOK, VpnState
<1>5. VpnOK(c) /\ NoDns(c) /\ c \in VpnState
  BY <1>4, <1>4b, FactoryOK DEF VpnOK
<1> HIDE DEF c
<1>6. VpnOK(e)
  BY <1>2, <1>5, StateSet
<1>7. Done(e) \/ \E r \in Start(c) : Done(Started(r))
  BY <1>0 DEF e, c, d, b
<1> HIDE DEF e
<1> QED BY <1>5, <1>6, <1>7, StartedOK, DoneKeeps

\* VpnConnection::disconnectFromVpn
LEMMA DisconnectKeeps ==
    ASSUME VpnInv, disconnectFromVpn
    PROVE  VpnInv'
<1>1. vpn \in VpnState /\ VpnOK(vpn) /\ vpn.attempt \in Attempt
  BY DEF VpnInv, VpnOK, VpnState
<1>2. "Disconnecting" \in ConnectionState /\ "Disconnected" \in ConnectionState
  BY DEF ConnectionState
<1>3. CASE Done(setConnectionState(vpn, "Disconnected", vpn.attempt))
  <2>1. VpnOK(setConnectionState(vpn, "Disconnected", vpn.attempt))
    BY <1>1, <1>2, StateSet
  <2> QED BY <1>3, <2>1, DoneKeeps
<1>4. CASE vpn.kind # "none"
  <2> DEFINE b == setConnectionState(vpn, "Disconnecting", vpn.attempt)
             c == Stop(b)
             d == [c EXCEPT !.kind = "none", !.timer = FALSE, !.proc = "none",
                            !.retry = FALSE, !.siteTimer = FALSE]
  <2>1. VpnOK(b)
    BY <1>1, <1>2, StateSet
  <2> HIDE DEF b
  <2>2. VpnOK(c) /\ NoDns(c) /\ c \in VpnState
    BY <2>1, Stopped DEF VpnOK
  <2> HIDE DEF c
  <2>3. d \in VpnState /\ d.routes = c.routes
    BY <2>2 DEF VpnState, ProtocolKind
  <2>4. Done(d)
    BY <1>4 DEF disconnectFromVpn, d, c, b
  <2> HIDE DEF d
  <2>5. VpnOK(d)
    BY <2>2, <2>3 DEF VpnOK, RoutesOK, NoDns
  <2> QED BY <2>4, <2>5, DoneKeeps
<1> QED BY <1>3, <1>4 DEF disconnectFromVpn

\* VpnConnection::reconnectToVpn
LEMMA ReconnectKeeps ==
    ASSUME VpnInv, reconnectToVpn
    PROVE  VpnInv'
<1> DEFINE b == setConnectionState(vpn, "Reconnecting", vpn.attempt)
           c == Stop(b)
<1>1. vpn \in VpnState /\ VpnOK(vpn) /\ vpn.attempt \in Attempt
  BY DEF VpnInv, VpnOK, VpnState
<1>2. "Reconnecting" \in ConnectionState
  BY DEF ConnectionState
<1>3. VpnOK(b)
  BY <1>1, <1>2, StateSet
<1> HIDE DEF b
<1>4. VpnOK(c) /\ NoDns(c)
  BY <1>3, Stopped
<1> HIDE DEF c
<1>5. \E r \in Start(c) : Done(Started(r))
  BY DEF reconnectToVpn, c, b
<1> QED BY <1>4, <1>5, StartedOK, DoneKeeps

\* A state asked for by the user-interface thread; never "Connected".
LEMMA SetStateKeeps ==
    ASSUME VpnInv, NEW s \in RequestedState,
           Done(setConnectionState(vpn, s, vpn.attempt))
    PROVE  VpnInv'
<1>1. vpn \in VpnState /\ VpnOK(vpn) /\ vpn.attempt \in Attempt
  BY DEF VpnInv, VpnOK, VpnState
<1>2. s \in ConnectionState /\ s # "Connected"
  BY DEF RequestedState, ConnectionState
<1>3. VpnOK(setConnectionState(vpn, s, vpn.attempt))
  BY <1>1, <1>2, StateSet
<1> QED BY <1>3, DoneKeeps

\* The one-second timer adds site routes only.
LEMMA SiteRoutesKeep ==
    ASSUME VpnInv, addSitesRoutes
    PROVE  VpnInv'
<1> DEFINE c == [vpn EXCEPT !.siteTimer = FALSE, !.routes = @ \cup {"sites"}]
<1>1. vpn \in VpnState /\ RoutesOK(vpn)
  BY DEF VpnInv, VpnOK
<1>2. /\ c \in VpnState /\ c.kind = vpn.kind /\ c.pstate = vpn.pstate
      /\ c.routes = vpn.routes \cup {"sites"}
  BY <1>1 DEF VpnState
<1>3. Done(c)
  BY DEF addSitesRoutes
<1> HIDE DEF c
<1>4. VpnOK(c)
  BY <1>1, <1>2 DEF VpnOK, RoutesOK
<1> QED BY <1>3, <1>4, DoneKeeps

-----------------------------------------------------------------------------
(* Events that reach the protocol object. *)

\* VpnProtocol::onTimeout
LEMMA TimeoutKeeps ==
    ASSUME VpnInv, onTimeout
    PROVE  VpnInv'
<1> DEFINE b == [vpn EXCEPT !.timer = FALSE]
           d == setLastError(b, VpnTunnelDidNotComeUpError)
           c == protocolError(d, VpnTunnelDidNotComeUpError)
           e == cancelTrafficProbe(c)
<1>1. vpn \in VpnState /\ RoutesOK(vpn)
  BY DEF VpnInv, VpnOK
<1>2. VpnTunnelDidNotComeUpError \in ErrorCode
  BY StartCodes
<1>3. /\ b \in VpnState /\ b.kind = vpn.kind /\ b.pstate = vpn.pstate
      /\ b.routes = vpn.routes
  BY <1>1 DEF VpnState
<1>4. VpnOK(b)
  BY <1>1, <1>3 DEF VpnOK, RoutesOK
<1> HIDE DEF b
<1>5. VpnOK(d)
  BY <1>2, <1>4, LastErrorSet
<1> HIDE DEF d
<1>6. VpnOK(c) /\ c \in VpnState /\ RoutesOK(c)
  BY <1>2, <1>5, ErrorSignalled DEF VpnOK
<1> HIDE DEF c
<1>7. /\ e \in VpnState /\ e.kind = c.kind /\ e.pstate = c.pstate
      /\ e.routes = c.routes
  BY <1>6 DEF VpnState, cancelTrafficProbe
<1>8. Done(Stop(e))
  BY DEF onTimeout, e, c, d, b
<1> HIDE DEF e
<1>9. VpnOK(Stop(e))
  BY <1>6, <1>7, Stopped DEF VpnOK, RoutesOK
<1> QED BY <1>8, <1>9, DoneKeeps

\* What the daemon and the probe report to the WireGuard protocol.
LEMMA WireguardEventKeeps ==
    ASSUME VpnInv,
           \/ startTrafficProbe \/ onProbeFinished \/ probeDeadline
           \/ backendFailure \/ daemonDisconnected \/ misheardReport
    PROVE  VpnInv'
<1>1. vpn \in VpnState /\ RoutesOK(vpn) /\ VpnOK(vpn)
  BY DEF VpnInv, VpnOK
<1>2. vpn.kind # "none"
  BY DEF startTrafficProbe, onProbeFinished, probeDeadline, backendFailure,
         daemonDisconnected, misheardReport, Running
<1>3. "Connected" \in ConnectionState /\ "Disconnected" \in ConnectionState
  BY DEF ConnectionState
<1>4. /\ VpnTunnelDidNotComeUpError \in ErrorCode
      /\ AmneziaServiceConnectionFailed \in ErrorCode
  BY StartCodes
<1>5. ASSUME Done([vpn EXCEPT !.awaited = FALSE, !.probe = TRUE,
                                !.timer = FALSE])
      PROVE  VpnInv'
  <2> DEFINE c == [vpn EXCEPT !.awaited = FALSE, !.probe = TRUE, !.timer = FALSE]
  <2>1. /\ c \in VpnState /\ c.kind = vpn.kind /\ c.pstate = vpn.pstate
        /\ c.routes = vpn.routes
    BY <1>1 DEF VpnState
  <2>2. Done(c)
    BY <1>5
  <2> HIDE DEF c
  <2>3. VpnOK(c)
    BY <1>1, <2>1 DEF VpnOK, RoutesOK
  <2> QED BY <2>2, <2>3, DoneKeeps
<1>6. CASE onProbeFinished
  <2> DEFINE c == cancelTrafficProbe(vpn)
  <2>1. /\ c \in VpnState /\ c.kind = vpn.kind /\ c.pstate = vpn.pstate
        /\ c.routes = vpn.routes
    BY <1>1 DEF VpnState, cancelTrafficProbe
  <2>2. Done(protocolState(c, "Connected"))
    BY <1>6 DEF onProbeFinished
  <2> HIDE DEF c
  <2>3. VpnOK(c) /\ c.kind # "none"
    BY <1>1, <1>2, <2>1 DEF VpnOK, RoutesOK
  <2>4. VpnOK(protocolState(c, "Connected"))
    BY <1>3, <2>3, ProtocolStateSet DEF TunnelStates
  <2> QED BY <2>2, <2>4, DoneKeeps
<1>7. CASE probeDeadline
  <2>1. VpnOK(failConnection(vpn, VpnTunnelDidNotComeUpError))
    BY <1>1, <1>2, <1>4, ConnectionFailed
  <2> QED BY <1>7, <2>1, DoneKeeps DEF probeDeadline
<1>8. ASSUME Done(failConnection(vpn, AmneziaServiceConnectionFailed))
      PROVE  VpnInv'
  <2>1. VpnOK(failConnection(vpn, AmneziaServiceConnectionFailed))
    BY <1>1, <1>2, <1>4, ConnectionFailed
  <2> QED BY <1>8, <2>1, DoneKeeps
<1>9. ASSUME NEW c \in VpnState, c.kind = vpn.kind, c.pstate = vpn.pstate,
             c.routes = vpn.routes,
             Done(protocolState(c, "Disconnected")) \/ Done(c)
      PROVE  VpnInv'
  <2>1. VpnOK(c) /\ c.kind # "none"
    BY <1>1, <1>2, <1>9 DEF VpnOK, RoutesOK
  <2>2. VpnOK(protocolState(c, "Disconnected"))
    BY <1>3, <2>1, ProtocolStateSet
  <2> QED BY <1>9, <2>1, <2>2, DoneKeeps
<1>10. CASE daemonDisconnected
  <2> DEFINE c == [cancelTrafficProbe(vpn) EXCEPT !.proc = "none",
                                                  !.late = FALSE]
  <2>1. /\ c \in VpnState /\ c.kind = vpn.kind /\ c.pstate = vpn.pstate
        /\ c.routes = vpn.routes
    BY <1>1 DEF VpnState, cancelTrafficProbe
  <2>2. Done(protocolState(c, "Disconnected"))
    BY <1>10 DEF daemonDisconnected
  <2> HIDE DEF c
  <2> QED BY <1>9, <2>1, <2>2
<1> DEFINE h == [cancelTrafficProbe(vpn) EXCEPT !.late = FALSE]
<1>11. /\ h \in VpnState /\ h.kind = vpn.kind /\ h.pstate = vpn.pstate
       /\ h.routes = vpn.routes
  BY <1>1 DEF VpnState, cancelTrafficProbe
<1>13. CASE misheardReport
  <2>1. CASE Done(protocolState(h, "Disconnected"))
    <3> HIDE DEF h
    <3> QED BY <1>9, <1>11, <2>1
  <2> QED BY <1>5, <1>8, <1>13, <2>1 DEF misheardReport
<1> QED BY <1>5, <1>6, <1>7, <1>8, <1>10, <1>13
        DEF startTrafficProbe, backendFailure

\* An answer of the daemon that changes nothing.
LEMMA LateKeeps ==
    ASSUME VpnInv, lateDisconnected
    PROVE  VpnInv'
<1> DEFINE h == [cancelTrafficProbe(vpn) EXCEPT !.late = FALSE]
<1>1. vpn \in VpnState /\ RoutesOK(vpn)
  BY DEF VpnInv, VpnOK
<1>2. /\ h \in VpnState /\ h.kind = vpn.kind /\ h.pstate = vpn.pstate
      /\ h.routes = vpn.routes
  BY <1>1 DEF VpnState, cancelTrafficProbe
<1>3. Done(h)
  BY DEF lateDisconnected
<1> HIDE DEF h
<1>4. VpnOK(h)
  BY <1>1, <1>2 DEF VpnOK, RoutesOK
<1> QED BY <1>3, <1>4, DoneKeeps

\* What the management socket and the process report to the OpenVPN protocol.
LEMMA OpenVpnEventKeeps ==
    ASSUME VpnInv,
           \/ managementConnected \/ managementReconnecting
           \/ managementExiting \/ managementFatal \/ openVpnFinished
    PROVE  VpnInv'
<1>1. vpn \in VpnState /\ RoutesOK(vpn) /\ VpnOK(vpn)
  BY DEF VpnInv, VpnOK
<1>2. vpn.kind # "none"
  BY DEF managementConnected, managementReconnecting, managementExiting,
         managementFatal, openVpnFinished, Running
<1>3. /\ "Connected" \in ConnectionState /\ "Disconnected" \in ConnectionState
      /\ "Reconnecting" \in ConnectionState
      /\ "Disconnecting" \in ConnectionState
  BY DEF ConnectionState
<1>4. CASE managementConnected
  <2> DEFINE c == [vpn EXCEPT !.timer = FALSE]
  <2>1. /\ c \in VpnState /\ c.kind = vpn.kind /\ c.pstate = vpn.pstate
        /\ c.routes = vpn.routes
    BY <1>1 DEF VpnState
  <2>2. Done(protocolState(c, "Connected"))
    BY <1>4 DEF managementConnected
  <2> HIDE DEF c
  <2>3. VpnOK(c) /\ c.kind # "none"
    BY <1>1, <1>2, <2>1 DEF VpnOK, RoutesOK
  <2>4. VpnOK(protocolState(c, "Connected"))
    BY <1>3, <2>3, ProtocolStateSet DEF TunnelStates
  <2> QED BY <2>2, <2>4, DoneKeeps
<1>5. CASE managementReconnecting
  <2>1. VpnOK(protocolState(vpn, "Reconnecting"))
    BY <1>1, <1>2, <1>3, ProtocolStateSet DEF TunnelStates
  <2> QED BY <1>5, <2>1, DoneKeeps DEF managementReconnecting
<1>6. CASE managementExiting
  <2> DEFINE c == protocolState(vpn, "Disconnecting")
             d == [c EXCEPT !.proc = "exiting"]
  <2>1. VpnOK(c) /\ c \in VpnState /\ RoutesOK(c)
    BY <1>1, <1>2, <1>3, ProtocolStateSet DEF TunnelStates, VpnOK
  <2>2. Done(d)
    BY <1>6 DEF managementExiting
  <2> HIDE DEF c
  <2>3. /\ d \in VpnState /\ d.kind = c.kind /\ d.pstate = c.pstate
        /\ d.routes = c.routes
    BY <2>1 DEF VpnState
  <2> HIDE DEF d
  <2>4. VpnOK(d)
    BY <2>1, <2>3 DEF VpnOK, RoutesOK
  <2> QED BY <2>2, <2>4, DoneKeeps
<1>7. CASE managementFatal
  <2>1. OpenVpnUnknownError \in ErrorCode
    BY StartCodes
  <2>2. VpnOK(protocolError(vpn, OpenVpnUnknownError))
    BY <1>1, <2>1, ErrorSignalled
  <2> QED BY <1>7, <2>2, DoneKeeps DEF managementFatal
<1>8. CASE openVpnFinished
  <2> DEFINE c == [vpn EXCEPT !.proc = "none"]
  <2>1. /\ c \in VpnState /\ c.kind = vpn.kind /\ c.pstate = vpn.pstate
        /\ c.routes = vpn.routes
    BY <1>1 DEF VpnState
  <2>2. Done(protocolState(c, "Disconnected"))
    BY <1>8 DEF openVpnFinished
  <2> HIDE DEF c
  <2>3. VpnOK(c) /\ c.kind # "none"
    BY <1>1, <1>2, <2>1 DEF VpnOK, RoutesOK
  <2>4. VpnOK(protocolState(c, "Disconnected"))
    BY <1>3, <2>3, ProtocolStateSet
  <2> QED BY <2>2, <2>4, DoneKeeps
<1> QED BY <1>4, <1>5, <1>6, <1>7, <1>8

\* What tun2socks reports to the Xray protocol.
LEMMA XrayEventKeeps ==
    ASSUME VpnInv,
           \/ tun2socksReady \/ tun2socksBusy \/ startTun2Socks
           \/ tun2socksFinished
    PROVE  VpnInv'
<1>1. vpn \in VpnState /\ RoutesOK(vpn) /\ VpnOK(vpn) /\ vpn.retries \in Nat
  BY DEF VpnInv, VpnOK, VpnState
<1>2. vpn.kind # "none"
  BY DEF tun2socksReady, tun2socksBusy, startTun2Socks, tun2socksFinished,
         Running
<1>3. "Connected" \in ConnectionState
  BY DEF ConnectionState
<1>4. /\ InternalError \in ErrorCode /\ Tun2SockExecutableCrashed \in ErrorCode
      /\ AmneziaServiceConnectionFailed \in ErrorCode
  BY StartCodes
<1>5. ASSUME NEW c, VpnOK(c), c.kind # "none", NEW e \in ErrorCode
      PROVE  VpnOK(setLastError(stopXray(c), e))
  <2>1. VpnOK(stopXray(c))
    BY <1>5, XrayStopped
  <2> QED BY <1>5, <2>1, LastErrorSet
<1>6. CASE tun2socksReady
  <2>1. VpnOK(protocolState(vpn, "Connected"))
    BY <1>1, <1>2, <1>3, ProtocolStateSet DEF TunnelStates
  <2>2. VpnOK(setLastError(stopXray(vpn), InternalError))
    BY <1>1, <1>2, <1>4, <1>5
  <2> QED BY <1>6, <2>1, <2>2, DoneKeeps DEF tun2socksReady
<1>7. CASE tun2socksBusy
  <2> DEFINE n == vpn.retries + 1
             c == [vpn EXCEPT !.proc = "none", !.retries = n, !.retry = TRUE]
  <2>1. n \in Nat
    BY <1>1
  <2>3. Done(c)
    BY <1>7 DEF tun2socksBusy
  <2> HIDE DEF n
  <2>2. /\ c \in VpnState /\ c.kind = vpn.kind /\ c.pstate = vpn.pstate
        /\ c.routes = vpn.routes
    BY <1>1, <2>1 DEF VpnState
  <2> HIDE DEF c
  <2>4. VpnOK(c)
    BY <1>1, <2>2 DEF VpnOK, RoutesOK
  <2> QED BY <2>3, <2>4, DoneKeeps
<1>8. CASE startTun2Socks
  <2> DEFINE c == [vpn EXCEPT !.retry = FALSE]
             d == [c EXCEPT !.proc = "running"]
  <2>1. /\ c \in VpnState /\ c.kind = vpn.kind /\ c.pstate = vpn.pstate
        /\ c.routes = vpn.routes
    BY <1>1 DEF VpnState
  <2>2. \/ Done(d)
        \/ Done(setLastError(stopXray(c), AmneziaServiceConnectionFailed))
    BY <1>8 DEF startTun2Socks
  <2> HIDE DEF c
  <2>3. VpnOK(c) /\ c.kind # "none"
    BY <1>1, <1>2, <2>1 DEF VpnOK, RoutesOK
  <2>4. /\ d \in VpnState /\ d.kind = c.kind /\ d.pstate = c.pstate
        /\ d.routes = c.routes
    BY <2>1 DEF VpnState
  <2> HIDE DEF d
  <2>5. VpnOK(d)
    BY <2>3, <2>4 DEF VpnOK, RoutesOK
  <2>6. VpnOK(setLastError(stopXray(c), AmneziaServiceConnectionFailed))
    BY <1>4, <1>5, <2>3
  <2> QED BY <2>2, <2>5, <2>6, DoneKeeps
<1>9. CASE tun2socksFinished
  <2> DEFINE c == [vpn EXCEPT !.retries = 0]
  <2>1. /\ c \in VpnState /\ c.kind = vpn.kind /\ c.pstate = vpn.pstate
        /\ c.routes = vpn.routes
    BY <1>1 DEF VpnState
  <2>2. Done(setLastError(stopXray(c), Tun2SockExecutableCrashed))
    BY <1>9 DEF tun2socksFinished
  <2> HIDE DEF c
  <2>3. VpnOK(c) /\ c.kind # "none"
    BY <1>1, <1>2, <2>1 DEF VpnOK, RoutesOK
  <2>4. VpnOK(setLastError(stopXray(c), Tun2SockExecutableCrashed))
    BY <1>4, <1>5, <2>3
  <2> QED BY <2>2, <2>4, DoneKeeps
<1> QED BY <1>6, <1>7, <1>8, <1>9

\* Every event that reaches the protocol object.
LEMMA ProtocolEventKeeps ==
    ASSUME VpnInv, ProtocolEvent
    PROVE  VpnInv'
BY WireguardEventKeeps, LateKeeps, OpenVpnEventKeeps, XrayEventKeeps
DEF ProtocolEvent

\* The constructor sets up neither protocol nor routes.
LEMMA VpnInitOK ==
    ASSUME VpnInit
    PROVE  VpnOK(vpn)
<1>1. <<>> \in Seq(Signal)
  BY EmptySeq
<1>2. NoAttempt \in Attempt
  BY ServersAssumption DEF NoAttempt, Attempt, Servers
<1>3. NoError \in ErrorCode \cup {NoError} /\ "Unknown" \in ConnectionState
      /\ "none" \in ProtocolKind
  BY DEF ConnectionState, ProtocolKind
<1>4. vpn \in VpnState /\ vpn.routes = {}
  BY <1>1, <1>2, <1>3 DEF VpnInit, VpnState
<1> QED BY <1>4 DEF VpnOK, RoutesOK

-----------------------------------------------------------------------------
(* What the screen is told. A slot may change the state of VpnConnection     *)
(* several times; the last state signal it emits names the state it ends in. *)

Says(q, i, s) == q[i].type = "state" /\ q[i].state = s

Mentions(q, s) == \E i \in 1..Len(q) : Says(q, i, s)

\* The last state signal of q is s.
Heard(q, s) ==
    \E i \in 1..Len(q) :
        Says(q, i, s) /\ \A j \in (i + 1)..Len(q) : q[j].type # "state"

Mute(q) == \A i \in 1..Len(q) : q[i].type # "state"

\* Whoever shows u and reads q to its end shows s.
Tells(q, u, s) == Heard(q, s) \/ (Mute(q) /\ u = s)

\* The signals of a slot keep up with the state on the way from c to d.
Speaks(c, d) ==
    /\ \A u : Tells(c.out, u, c.state) => Tells(d.out, u, d.state)
    /\ \A s : Mentions(c.out, s) => Mentions(d.out, s)

\* A state signal at the end of a queue is the one that is heard.
LEMMA SignalHeard ==
    ASSUME NEW S, NEW q \in Seq(S), NEW e \in S, e.type = "state"
    PROVE  LET p == Append(q, e)
           IN  /\ Heard(p, e.state)
               /\ \A s : Mentions(p, s) <=> Mentions(q, s) \/ s = e.state
<1> DEFINE p == Append(q, e)
<1>1. /\ Len(p) = Len(q) + 1 /\ p[Len(q) + 1] = e /\ Len(q) \in Nat
      /\ \A i \in 1..Len(q) : p[i] = q[i]
  BY AppendProperties, LenProperties
<1> HIDE DEF p
<1>2. Heard(p, e.state)
  BY <1>1 DEF Heard, Says
<1>3. ASSUME NEW s PROVE Mentions(p, s) <=> Mentions(q, s) \/ s = e.state
  BY <1>1 DEF Mentions, Says
<1> QED BY <1>2, <1>3 DEF p

\* Anything else at the end of a queue changes nothing.
LEMMA OtherUnheard ==
    ASSUME NEW S, NEW q \in Seq(S), NEW e \in S, e.type # "state"
    PROVE  LET p == Append(q, e)
           IN  /\ \A u, s : Tells(q, u, s) => Tells(p, u, s)
               /\ \A s : Mentions(p, s) <=> Mentions(q, s)
<1> DEFINE p == Append(q, e)
<1>1. /\ Len(p) = Len(q) + 1 /\ p[Len(q) + 1] = e /\ Len(q) \in Nat
      /\ \A i \in 1..Len(q) : p[i] = q[i]
  BY AppendProperties, LenProperties
<1> HIDE DEF p
<1>2. ASSUME NEW u, NEW s, Tells(q, u, s) PROVE Tells(p, u, s)
  <2>1. CASE Heard(q, s)
    <3>1. PICK i \in 1..Len(q) :
             Says(q, i, s) /\ \A j \in (i + 1)..Len(q) : q[j].type # "state"
      BY <2>1 DEF Heard
    <3>2. i \in 1..Len(p) /\ Says(p, i, s)
      BY <1>1, <3>1 DEF Says
    <3>3. ASSUME NEW j \in (i + 1)..Len(p) PROVE p[j].type # "state"
      BY <1>1, <3>1
    <3> QED BY <3>2, <3>3 DEF Tells, Heard
  <2>2. CASE Mute(q) /\ u = s
    BY <1>1, <2>2 DEF Tells, Mute
  <2> QED BY <1>2, <2>1, <2>2 DEF Tells
<1>3. ASSUME NEW s PROVE Mentions(p, s) <=> Mentions(q, s)
  BY <1>1 DEF Mentions, Says
<1> QED BY <1>2, <1>3 DEF p

\* What the slots leave alone when they change the state.
SameRun(c, d) ==
    /\ d.kind = c.kind /\ d.attempt = c.attempt /\ d.proc = c.proc
    /\ d.probe = c.probe /\ d.late = c.late /\ d.retry = c.retry

\* VpnConnection::setConnectionState signals the state it sets; it drops
\* "Disconnected" while it reconnects, and then says nothing either.
LEMMA StateSpoken ==
    ASSUME NEW c \in VpnState, NEW s \in ConnectionState, NEW a \in Attempt
    PROVE  LET d == setConnectionState(c, s, a)
           IN  /\ d \in VpnState /\ Speaks(c, d)
               /\ SameRun(c, d) /\ d.pstate = c.pstate /\ d.timer = c.timer
               /\ d.state = IF s = "Disconnected" /\ c.state = "Reconnecting"
                            THEN c.state ELSE s
               /\ s # "Disconnected" => Heard(d.out, s) /\ Mentions(d.out, s)
               /\ \A t : Mentions(d.out, t) => Mentions(c.out, t) \/ t = s
<1> DEFINE d == onConnectionStateChanged(c, s)
           e == [d EXCEPT !.state = s]
           f == Emit(e, StateSignal(s, a))
<1>1. /\ d \in VpnState /\ d.pstate = c.pstate /\ SameRun(c, d)
      /\ d.out = c.out /\ d.state = c.state /\ d.timer = c.timer
  <2>1. d \in VpnState
    BY RoutesChanged
  <2> QED BY <2>1, VpnAssumption DEF onConnectionStateChanged, VpnState, SameRun
<1> HIDE DEF d
<1>2. /\ e \in VpnState /\ e.pstate = c.pstate /\ SameRun(c, e)
      /\ e.out = c.out /\ e.state = s /\ e.timer = c.timer
  BY <1>1 DEF VpnState, SameRun
<1> HIDE DEF e
<1>3. /\ StateSignal(s, a) \in Signal /\ StateSignal(s, a).type = "state"
      /\ StateSignal(s, a).state = s
  BY DEF StateSignal, Signal
<1>4. c.out \in Seq(Signal)
  BY DEF VpnState
<1>5. Append(e.out, StateSignal(s, a)) \in Seq(Signal)
  BY <1>2, <1>3, <1>4, AppendProperties
<1>6. /\ f \in VpnState /\ f.pstate = c.pstate /\ SameRun(c, f)
      /\ f.out = Append(c.out, StateSignal(s, a)) /\ f.state = s
      /\ f.timer = c.timer
  BY <1>2, <1>5 DEF Emit, VpnState, SameRun
<1> HIDE DEF f
<1>7. /\ Heard(f.out, s)
      /\ \A t : Mentions(f.out, t) <=> Mentions(c.out, t) \/ t = s
  BY <1>3, <1>4, <1>6, SignalHeard
<1>8. CASE s = "Disconnected" /\ c.state = "Reconnecting"
  <2>1. setConnectionState(c, s, a) = d
    BY <1>8 DEF setConnectionState, d
  <2> QED BY <1>1, <1>8, <2>1 DEF Speaks
<1>9. CASE ~(s = "Disconnected" /\ c.state = "Reconnecting")
  <2>1. setConnectionState(c, s, a) = f
    BY <1>9 DEF setConnectionState, d, e, f
  <2> QED BY <1>6, <1>7, <1>9, <2>1 DEF Speaks, Tells
<1> QED BY <1>8, <1>9

\* VpnProtocol::setConnectionState: nothing happens, or both states change.
LEMMA ProtocolStateSpoken ==
    ASSUME NEW c \in VpnState, NEW s \in ConnectionState
    PROVE  LET d == protocolState(c, s)
           IN  /\ d \in VpnState /\ Speaks(c, d) /\ SameRun(c, d)
               /\ \/ /\ d = c
                     /\ c.pstate = s
                        \/ (c.pstate = "Disconnected" /\ s = "Disconnecting")
                  \/ /\ d.pstate = s
                     /\ d.state = IF s = "Disconnected"
                                     /\ c.state = "Reconnecting"
                                  THEN c.state ELSE s
<1> DEFINE e == [c EXCEPT !.pstate = s, !.timer = TimerAfter(s, @)]
           f == setConnectionState(e, s, c.attempt)
<1>1. c.attempt \in Attempt /\ c.timer \in BOOLEAN
  BY DEF VpnState
<1>2. TimerAfter(s, c.timer) \in BOOLEAN
  BY <1>1 DEF TimerAfter
<1>3. /\ e \in VpnState /\ e.pstate = s /\ SameRun(c, e)
      /\ e.out = c.out /\ e.state = c.state
  BY <1>1, <1>2 DEF VpnState, SameRun
<1> HIDE DEF e
<1>4. /\ f \in VpnState /\ Speaks(e, f) /\ SameRun(e, f) /\ f.pstate = s
      /\ f.state = IF s = "Disconnected" /\ e.state = "Reconnecting"
                   THEN e.state ELSE s
  BY <1>1, <1>3, StateSpoken
<1> HIDE DEF f
<1>5. CASE \/ c.pstate = s
           \/ (c.pstate = "Disconnected" /\ s = "Disconnecting")
  <2>1. protocolState(c, s) = c
    BY <1>5 DEF protocolState
  <2> QED BY <1>5, <2>1 DEF Speaks, SameRun
<1>6. CASE ~(\/ c.pstate = s
             \/ (c.pstate = "Disconnected" /\ s = "Disconnecting"))
  <2>1. protocolState(c, s) = f
    BY <1>6 DEF protocolState, f, e
  <2> QED BY <1>3, <1>4, <2>1 DEF Speaks, SameRun
<1> QED BY <1>5, <1>6

\* A traffic probe belongs to a tunnel that runs, or to one that was given up
\* and of which the daemon will still say so.
Sane(c) ==
    (c.kind = "WireGuard" /\ c.probe) => c.proc = "running" \/ c.late

Claims == {"Connected", "Disconnecting"}

\* What every operator does that may only leave "Connected" and
\* "Disconnecting" behind.
Turn(c, d) ==
    /\ d \in VpnState /\ Speaks(c, d)
    /\ d.kind = c.kind /\ d.attempt = c.attempt
    /\ Sane(c) => Sane(d)
    /\ c.state # "Connected" => d.state # "Connected"
    /\ c.state \notin Claims => d.state \notin Claims

\* One operator after another.
LEMMA TurnTransitive ==
    ASSUME NEW b, NEW c, NEW d, Turn(b, c), Turn(c, d)
    PROVE  Turn(b, d)
BY DEF Turn, Speaks

\* Fields that no signal is about may change as long as the probe stays with
\* a running tunnel.
LEMMA Untold ==
    ASSUME NEW c \in VpnState, NEW d \in VpnState,
           d.state = c.state, d.out = c.out, d.kind = c.kind,
           d.attempt = c.attempt, Sane(c) => Sane(d)
    PROVE  Turn(c, d)
BY DEF Turn, Speaks

\* VpnProtocol::setConnectionState of any state but those two.
LEMMA ProtocolTurn ==
    ASSUME NEW c \in VpnState, NEW s \in ConnectionState \ Claims
    PROVE  Turn(c, protocolState(c, s)) /\ SameRun(c, protocolState(c, s))
<1> DEFINE d == protocolState(c, s)
<1>1. /\ d \in VpnState /\ Speaks(c, d) /\ SameRun(c, d)
      /\ d = c \/ d.state = s \/ d.state = c.state
  BY ProtocolStateSpoken
<1> HIDE DEF d
<1>2. d.state = c.state \/ d.state = s
  BY <1>1
<1>3. Turn(c, d)
  BY <1>1, <1>2 DEF Turn, SameRun, Sane, Claims
<1> QED BY <1>1, <1>3 DEF d

\* VpnProtocol::setLastError: "Error" follows every other state.
LEMMA ErrorTurn ==
    ASSUME NEW c \in VpnState, NEW e \in ErrorCode
    PROVE  LET d == setLastError(c, e)
           IN  /\ Turn(c, d) /\ SameRun(c, d)
               /\ c.pstate # "Error" => d.state = "Error"
<1> DEFINE f == [c EXCEPT !.lastError = e]
           d == protocolState(f, "Error")
<1>1. /\ f \in VpnState /\ f.state = c.state /\ f.out = c.out
      /\ SameRun(c, f) /\ f.pstate = c.pstate
  BY DEF VpnState, SameRun
<1>2. Turn(c, f)
  BY <1>1, Untold DEF SameRun, Sane
<1>3. "Error" \in ConnectionState \ Claims
  BY DEF ConnectionState, Claims
<1> HIDE DEF f
<1>4. Turn(f, d) /\ SameRun(f, d)
  BY <1>1, <1>3, ProtocolTurn
<1>5. c.pstate # "Error" => d.state = "Error"
  BY <1>1, <1>3, ProtocolStateSpoken
<1> HIDE DEF d
<1>6. Turn(c, d) /\ SameRun(c, d)
  BY <1>1, <1>2, <1>4, TurnTransitive DEF SameRun
<1> QED BY <1>5, <1>6 DEF setLastError, d, f

\* An error code tells nothing about the state.
LEMMA CodeTurn ==
    ASSUME NEW c \in VpnState, NEW e \in ErrorCode
    PROVE  LET d == protocolError(c, e)
           IN  /\ Turn(c, d) /\ SameRun(c, d)
               /\ d.state = c.state /\ d.pstate = c.pstate
<1> DEFINE g == ErrorSignal(e, c.attempt)
           d == protocolError(c, e)
<1>1. g \in Signal /\ g.type # "state"
  BY DEF VpnState, ErrorSignal, Signal
<1>2. c.out \in Seq(Signal)
  BY DEF VpnState
<1>3. Append(c.out, g) \in Seq(Signal)
  BY <1>1, <1>2, AppendProperties
<1>4. /\ \A u, s : Tells(c.out, u, s) => Tells(Append(c.out, g), u, s)
      /\ \A s : Mentions(Append(c.out, g), s) <=> Mentions(c.out, s)
  BY <1>1, <1>2, OtherUnheard
<1> HIDE DEF g
<1>5. /\ d \in VpnState /\ d.state = c.state /\ d.pstate = c.pstate
      /\ d.out = Append(c.out, g) /\ SameRun(c, d)
  BY <1>3 DEF protocolError, Emit, VpnState, SameRun, g
<1> HIDE DEF d
<1>6. Turn(c, d)
  BY <1>4, <1>5 DEF Turn, Speaks, SameRun, Sane
<1> QED BY <1>5, <1>6 DEF d

\* WireguardProtocol::stop
LEMMA WireguardStopTurn ==
    ASSUME NEW c \in VpnState
    PROVE  Turn(c, stopWireguard(c))
<1> DEFINE e == [cancelTrafficProbe(c) EXCEPT
                     !.late = @ \/ c.proc = "running",
                     !.proc = "none"]
           d == protocolState(e, "Disconnected")
<1>1. /\ e \in VpnState /\ e.state = c.state /\ e.out = c.out
      /\ e.kind = c.kind /\ e.attempt = c.attempt /\ ~e.probe
      /\ e.late = (c.late \/ c.proc = "running")
  BY VpnAssumption DEF VpnState, cancelTrafficProbe
<1>2. "Disconnected" \in ConnectionState \ Claims
  BY DEF ConnectionState, Claims
<1> HIDE DEF e
<1>3. Turn(c, e)
  BY <1>1, Untold DEF Sane
<1>4. Turn(e, d)
  BY <1>1, <1>2, ProtocolTurn
<1> HIDE DEF d
<1> QED BY <1>3, <1>4, TurnTransitive DEF stopWireguard, d, e

\* XrayProtocol::stop
LEMMA XrayStopTurn ==
    ASSUME NEW c \in VpnState, c.kind # "WireGuard"
    PROVE  LET d == stopXray(c)
           IN  Turn(c, d) /\ d.pstate = "Disconnected"
<1> DEFINE e == [c EXCEPT !.proc = "none"]
           d == protocolState(e, "Disconnected")
<1>1. /\ e \in VpnState /\ e.state = c.state /\ e.out = c.out
      /\ e.kind = c.kind /\ e.attempt = c.attempt /\ e.pstate = c.pstate
      /\ e.late = c.late
  BY DEF VpnState
<1>2. "Disconnected" \in ConnectionState \ Claims
  BY DEF ConnectionState, Claims
<1> HIDE DEF e
<1>3. Turn(c, e)
  BY <1>1, Untold DEF Sane
<1>4. Turn(e, d)
  BY <1>1, <1>2, ProtocolTurn
<1>5. d.pstate = "Disconnected"
  BY <1>1, <1>2, ProtocolStateSpoken
<1> HIDE DEF d
<1>6. Turn(c, d)
  BY <1>3, <1>4, TurnTransitive
<1> QED BY <1>5, <1>6 DEF stopXray, d, e

\* OpenVpnProtocol::cleanupResources
LEMMA CleanTurn ==
    ASSUME NEW c \in VpnState, c.kind # "WireGuard"
    PROVE  LET d == cleanupResources(c)
           IN  /\ Turn(c, d) /\ d.state = c.state /\ d.pstate = c.pstate
               /\ d.out = c.out
<1> DEFINE d == cleanupResources(c)
<1>1. /\ d \in VpnState /\ d.state = c.state /\ d.pstate = c.pstate
      /\ d.out = c.out /\ d.kind = c.kind /\ d.attempt = c.attempt
      /\ d.late = c.late
  BY DEF VpnState, cleanupResources
<1> HIDE DEF d
<1>2. Turn(c, d)
  BY <1>1, Untold DEF Sane
<1> QED BY <1>1, <1>2 DEF d

\* OpenVpnProtocol::stop passes through "Disconnecting" and does not stay.
LEMMA OpenVpnStopTurn ==
    ASSUME NEW c \in VpnState, c.kind # "WireGuard"
    PROVE  Turn(c, stopOpenVpn(c))
<1> DEFINE f == protocolState(c, "Disconnecting")
           d == IF WasActive(c) THEN f ELSE c
           e == cleanupResources(d)
           g == protocolState(e, "Disconnected")
<1>1. "Disconnecting" \in ConnectionState
  BY DEF ConnectionState
<1>2. "Disconnected" \in ConnectionState \ Claims
  BY DEF ConnectionState, Claims
<1>3. /\ f \in VpnState /\ Speaks(c, f) /\ SameRun(c, f)
      /\ WasActive(c) => f.state = "Disconnecting" /\ f.pstate = "Disconnecting"
  <2>1. WasActive(c) => c.pstate \notin {"Disconnecting", "Disconnected"}
    BY DEF WasActive
  <2> QED BY <1>1, <2>1, ProtocolStateSpoken
<1> HIDE DEF f
<1>4. CASE WasActive(c)
  <2>1. d = f
    BY <1>4
  <2>2. /\ Turn(f, e) /\ e.state = "Disconnecting"
        /\ e.pstate = "Disconnecting" /\ e \in VpnState
    BY <1>3, <1>4, <2>1, CleanTurn DEF SameRun, Turn
  <2> HIDE DEF d, e
  <2>3. Turn(e, g) /\ g.state = "Disconnected"
    <3>1. Turn(e, g)
      BY <1>2, <2>2, ProtocolTurn
    <3>2. g.state = "Disconnected"
      BY <1>2, <2>2, ProtocolStateSpoken
    <3> QED BY <3>1, <3>2
  <2> HIDE DEF g
  <2>4. stopOpenVpn(c) = g
    BY <1>4 DEF stopOpenVpn, g, e, d, f
  <2>5. Turn(c, g)
    BY <1>3, <2>2, <2>3 DEF Turn, Speaks, SameRun, Sane, Claims
  <2> QED BY <2>4, <2>5
<1>5. CASE ~WasActive(c)
  <2>1. d = c
    BY <1>5
  <2>2. Turn(c, e) /\ e \in VpnState
    BY <2>1, CleanTurn DEF Turn
  <2> HIDE DEF d, e
  <2>3. Turn(e, g)
    BY <1>2, <2>2, ProtocolTurn
  <2>4. Turn(c, g)
    BY <2>2, <2>3, TurnTransitive
  <2> HIDE DEF g
  <2>5. stopOpenVpn(c) = g \/ stopOpenVpn(c) = e
    BY <1>5 DEF stopOpenVpn, g, e, d, f
  <2> QED BY <2>2, <2>4, <2>5
<1> QED BY <1>4, <1>5

\* Stopping a protocol never ends at "Connected".
LEMMA StopTurn ==
    ASSUME NEW c \in VpnState
    PROVE  Turn(c, Stop(c))
<1>1. c.kind \in ProtocolKind
  BY DEF VpnState
<1>2. CASE c.kind = "WireGuard"
  BY <1>2, WireguardStopTurn DEF Stop
<1>3. CASE c.kind = "OpenVpn"
  BY <1>3, OpenVpnStopTurn DEF Stop
<1>4. CASE c.kind = "Xray"
  <2>1. Stop(c) = stopXray(c)
    BY <1>4 DEF Stop
  <2> QED BY <1>4, <2>1, XrayStopTurn
<1>5. CASE c.kind = "none"
  <2>1. Stop(c) = c
    BY <1>5 DEF Stop
  <2> QED BY <2>1 DEF Turn, Speaks
<1> QED BY <1>1, <1>2, <1>3, <1>4, <1>5 DEF ProtocolKind

\* WireguardProtocol::failConnection: a failure not reported yet ends with
\* the protocol stopped and neither "Connected" nor "Disconnecting" left.
LEMMA FailTurn ==
    ASSUME NEW c \in VpnState, NEW e \in ErrorCode,
           c.state \in Claims => c.pstate # "Error"
    PROVE  LET d == failConnection(c, e)
           IN  Turn(c, d) /\ (d = c \/ d.state \notin Claims)
<1> DEFINE d == cancelTrafficProbe([c EXCEPT !.reported = TRUE])
           f == setLastError(d, e)
           g == protocolError(f, e)
           h == stopWireguard(g)
<1>1. /\ d \in VpnState /\ d.state = c.state /\ d.out = c.out
      /\ d.kind = c.kind /\ d.attempt = c.attempt /\ d.pstate = c.pstate
      /\ d.late = c.late /\ ~d.probe
  BY DEF VpnState, cancelTrafficProbe
<1> HIDE DEF d
<1>2. Turn(c, d)
  BY <1>1, Untold DEF Sane
<1>3. Turn(d, f) /\ f \in VpnState /\ f.state \notin Claims
  BY <1>1, ErrorTurn DEF Turn, Claims
<1> HIDE DEF f
<1>4. Turn(f, g) /\ g \in VpnState
  BY <1>3, CodeTurn DEF Turn
<1> HIDE DEF g
<1>5. Turn(g, h)
  BY <1>4, WireguardStopTurn
<1> HIDE DEF h
<1>6. Turn(c, h) /\ h.state \notin Claims
  BY <1>2, <1>3, <1>4, <1>5, TurnTransitive DEF Turn
<1>7. failConnection(c, e) = IF c.reported THEN c ELSE h
  BY DEF failConnection, h, g, f, d
<1>8. Turn(c, c)
  BY DEF Turn, Speaks
<1> QED BY <1>6, <1>7, <1>8

\* A process that runs changes nothing about what was told.
LEMMA RunningTurn ==
    ASSUME NEW c \in VpnState
    PROVE  Turn(c, [c EXCEPT !.proc = "running"])
<1> DEFINE d == [c EXCEPT !.proc = "running"]
<1>1. /\ d \in VpnState /\ d.state = c.state /\ d.out = c.out
      /\ d.kind = c.kind /\ d.attempt = c.attempt /\ d.proc = "running"
      /\ d.late = c.late
  BY DEF VpnState
<1> HIDE DEF d
<1> QED BY <1>1, Untold DEF Sane, d

\* "Connecting", with or without a process that runs.
LEMMA BeginTurn ==
    ASSUME NEW c \in VpnState
    PROVE  LET d == protocolState(c, "Connecting")
           IN  Turn(c, d) /\ Turn(c, [d EXCEPT !.proc = "running"])
<1> DEFINE d == protocolState(c, "Connecting")
<1>1. "Connecting" \in ConnectionState \ Claims
  BY DEF ConnectionState, Claims
<1>2. Turn(c, d) /\ d \in VpnState
  BY <1>1, ProtocolTurn DEF Turn
<1> HIDE DEF d
<1>3. Turn(d, [d EXCEPT !.proc = "running"])
  BY <1>2, RunningTurn
<1>4. Turn(c, [d EXCEPT !.proc = "running"])
  BY <1>2, <1>3, TurnTransitive
<1> QED BY <1>2, <1>4 DEF d

\* The three starts, from a state that claims nothing.
LEMMA WireguardStartTurn ==
    ASSUME NEW c \in VpnState, c.state \notin Claims,
           NEW r \in startWireguard(c)
    PROVE  Turn(c, r.after)
<1> DEFINE b == [c EXCEPT !.reported = FALSE]
           d == protocolState(b, "Connecting")
           e == [d EXCEPT !.proc = "running", !.awaited = TRUE]
           f == failConnection(d, AddressPoolError)
<1>1. /\ b \in VpnState /\ b.state = c.state /\ b.out = c.out
      /\ SameRun(c, b)
  BY DEF VpnState, SameRun
<1>2. Turn(c, b)
  BY <1>1, Untold DEF SameRun, Sane
<1> HIDE DEF b
<1>3. Turn(b, d) /\ d \in VpnState /\ d.state \notin Claims
  BY <1>1, BeginTurn DEF Turn
<1>4. AddressPoolError \in ErrorCode
  BY StartCodes
<1> HIDE DEF d
<1>5. Turn(d, e) /\ Turn(d, f)
  <2>1. /\ e \in VpnState /\ e.state = d.state /\ e.out = d.out
        /\ e.kind = d.kind /\ e.attempt = d.attempt /\ e.proc = "running"
    BY <1>3 DEF VpnState
  <2> HIDE DEF e
  <2>2. Turn(d, e)
    BY <1>3, <2>1, Untold DEF Sane
  <2> QED BY <1>3, <1>4, <2>2, FailTurn
<1> HIDE DEF e, f
<1>6. r \in {[after |-> e, error |-> NoError],
             [after |-> f, error |-> AddressPoolError]}
  BY DEF startWireguard, f, e, d, b
<1>7. Turn(c, e) /\ Turn(c, f)
  BY <1>2, <1>3, <1>5, TurnTransitive
<1> QED BY <1>6, <1>7

\* OpenVpnProtocol::start
LEMMA OpenVpnStartTurn ==
    ASSUME NEW c \in VpnState, c.kind = "OpenVpn",
           NEW r \in startOpenVpn(c)
    PROVE  Turn(c, r.after)
<1> DEFINE d == cleanupResources(c)
           missing == setLastError(d, OpenVpnConfigMissing)
           alone == [d EXCEPT !.proc = "none"]
           begun == protocolState(alone, "Connecting")
           refused == setLastError(begun, AmneziaServiceConnectionFailed)
           running == [protocolState(d, "Connecting") EXCEPT !.proc = "running"]
<1>1. Turn(c, d) /\ d \in VpnState /\ d.kind = "OpenVpn"
  BY CleanTurn DEF Turn
<1> HIDE DEF d
<1>2. /\ OpenVpnConfigMissing \in ErrorCode
      /\ AmneziaServiceConnectionFailed \in ErrorCode
  BY StartCodes
<1>3. Turn(d, missing)
  BY <1>1, <1>2, ErrorTurn
<1>4. /\ alone \in VpnState /\ alone.state = d.state /\ alone.out = d.out
      /\ alone.kind = d.kind /\ alone.attempt = d.attempt
      /\ alone.late = d.late
  BY <1>1 DEF VpnState
<1> HIDE DEF alone
<1>5. Turn(d, alone)
  BY <1>1, <1>4, Untold DEF Sane
<1>6. Turn(alone, begun) /\ begun \in VpnState
  BY <1>4, BeginTurn DEF Turn
<1> HIDE DEF begun
<1>7. Turn(begun, refused)
  BY <1>2, <1>6, ErrorTurn
<1>8. Turn(d, running)
  BY <1>1, BeginTurn
<1> HIDE DEF missing, refused, running
<1>9. r \in {[after |-> missing, error |-> OpenVpnConfigMissing],
             [after |-> d, error |-> AmneziaServiceConnectionFailed],
             [after |-> refused, error |-> AmneziaServiceConnectionFailed],
             [after |-> running, error |-> NoError]}
  BY DEF startOpenVpn, missing, refused, running, begun, alone, d
<1>10. Turn(c, missing) /\ Turn(c, running) /\ Turn(c, refused)
  BY <1>1, <1>3, <1>5, <1>6, <1>7, <1>8, TurnTransitive
<1> QED BY <1>1, <1>9, <1>10

\* XrayProtocol::start
LEMMA XrayStartTurn ==
    ASSUME NEW c \in VpnState, NEW r \in startXray(c)
    PROVE  Turn(c, r.after)
<1> DEFINE d == protocolState(c, "Connecting")
           e == [d EXCEPT !.proc = "running"]
<1>1. Turn(c, d) /\ Turn(c, e)
  BY BeginTurn
<1> HIDE DEF d, e
<1>2. r \in {[after |-> d, error |-> XrayExecutableCrashed],
             [after |-> e, error |-> NoError]}
  BY DEF startXray, d, e
<1> QED BY <1>1, <1>2

\* What connectToVpn and reconnectToVpn make of a start.
LEMMA StartedTurn ==
    ASSUME NEW c, VpnOK(c), NoDns(c), c.state \notin Claims, NEW r \in Start(c)
    PROVE  Turn(c, Started(r))
<1>1. c \in VpnState /\ c.kind # "none" /\ c.kind \in ProtocolKind
  BY DEF Start, VpnOK, VpnState
<1>2. Turn(c, r.after) /\ r.error \in ErrorCode \cup {NoError}
  <2>1. CASE c.kind = "WireGuard"
    <3>1. r \in startWireguard(c)
      BY <2>1 DEF Start
    <3> QED BY <1>1, <3>1, WireguardStarted, WireguardStartTurn
  <2>2. CASE c.kind = "OpenVpn"
    <3>1. r \in startOpenVpn(c)
      BY <2>2 DEF Start
    <3> QED BY <1>1, <2>2, <3>1, OpenVpnStarted, OpenVpnStartTurn
  <2>3. CASE c.kind = "Xray"
    <3>1. r \in startXray(c)
      BY <2>3 DEF Start
    <3> QED BY <1>1, <3>1, XrayStarted, XrayStartTurn
  <2> QED BY <1>1, <2>1, <2>2, <2>3 DEF ProtocolKind
<1>3. CASE r.error = NoError
  BY <1>2, <1>3 DEF Started
<1>4. CASE r.error # NoError
  <2> DEFINE d == r.after
             e == setConnectionState(d, "Error", d.attempt)
             f == protocolError(e, r.error)
  <2>1. d \in VpnState /\ d.attempt \in Attempt /\ r.error \in ErrorCode
    BY <1>2, <1>4 DEF Turn, VpnState
  <2>2. "Error" \in ConnectionState
    BY DEF ConnectionState
  <2>3. Turn(c, d)
    BY <1>2
  <2> HIDE DEF d
  <2>4. /\ e \in VpnState /\ Speaks(d, e) /\ SameRun(d, e)
        /\ e.state = "Error"
    BY <2>1, <2>2, StateSpoken
  <2> HIDE DEF e
  <2>5. Turn(d, e) /\ e.attempt = d.attempt
    BY <2>4 DEF Turn, SameRun, Sane, Claims
  <2>6. Turn(e, f)
    BY <2>1, <2>4, CodeTurn
  <2>7. Started(r) = f
    BY <1>4, <2>5 DEF Started, protocolError, f, e, d
  <2> QED BY <2>3, <2>5, <2>6, <2>7, TurnTransitive
<1> QED BY <1>3, <1>4

-----------------------------------------------------------------------------
(* What the states of VpnConnection say about the protocol, between slots.   *)

\* "Disconnecting" with a protocol: it is OpenVPN's, whose process is exiting.
Leaving(c) ==
    (c.kind # "none" /\ c.state = "Disconnecting")
        => /\ c.kind = "OpenVpn" /\ c.pstate = "Disconnecting"
           /\ c.proc = "exiting"

\* "Connected": the protocol says so too, and its process runs, is about to be
\* restarted, or the daemon has yet to say that it was ended.
Backed(c) ==
    (c.attempt.no > 0 /\ c.state = "Connected")
        => /\ c.kind # "none" /\ c.pstate = "Connected"
           /\ \/ c.proc = "running" \/ c.retry
              \/ c.kind = "WireGuard" /\ c.late

\* A protocol object is made for an attempt, of the kind its server uses.
Made(c) ==
    c.kind # "none" => c.attempt.no > 0 /\ c.kind = KindOf[c.attempt.server]

VpnTruth(c) == Sane(c) /\ Leaving(c) /\ Backed(c) /\ Made(c)

Truthful == VpnTruth(vpn) /\ vpn.out = <<>>

\* A step hands over what the user-interface thread needs to keep up.
Relayed ==
    /\ \A u : Tells(inbox, u, vpn.state) => Tells(inbox', u, vpn'.state)
    /\ \A s : Mentions(inbox, s) => Mentions(inbox', s)

\* One queue read after another.
LEMMA ConcatTold ==
    ASSUME NEW S, NEW q \in Seq(S), NEW p \in Seq(S)
    PROVE  /\ \A s : Heard(p, s) => Heard(q \o p, s)
           /\ \A u, m, s : Tells(q, u, m) /\ Tells(p, m, s) => Tells(q \o p, u, s)
           /\ \A s : Mentions(q \o p, s) <=> Mentions(q, s) \/ Mentions(p, s)
<1> DEFINE w == q \o p
<1>1. /\ Len(q) \in Nat /\ Len(p) \in Nat /\ Len(w) = Len(q) + Len(p)
      /\ \A i \in 1..Len(q) : w[i] = q[i]
      /\ \A i \in 1..Len(p) : w[Len(q) + i] = p[i]
  <2>1. /\ Len(w) = Len(q) + Len(p)
        /\ \A i \in 1..Len(w) : w[i] = IF i <= Len(q) THEN q[i]
                                       ELSE p[i - Len(q)]
    BY ConcatProperties
  <2>2. Len(q) \in Nat /\ Len(p) \in Nat
    BY LenProperties
  <2> HIDE DEF w
  <2>3. \A i \in 1..Len(q) : w[i] = q[i]
    BY <2>1, <2>2
  <2>4. ASSUME NEW i \in 1..Len(p) PROVE w[Len(q) + i] = p[i]
    <3>1. /\ Len(q) + i \in 1..Len(w) /\ ~(Len(q) + i <= Len(q))
          /\ Len(q) + i - Len(q) = i
      BY <2>1, <2>2
    <3> QED BY <2>1, <3>1
  <2> QED BY <2>1, <2>2, <2>3, <2>4
<1>2. \A j \in 1..Len(w) : j \in 1..Len(q) \/ \E i \in 1..Len(p) : j = Len(q) + i
  <2>1. ASSUME NEW j \in 1..Len(w), j \notin 1..Len(q)
        PROVE  j - Len(q) \in 1..Len(p) /\ j = Len(q) + (j - Len(q))
    BY <1>1, <2>1
  <2> QED BY <2>1
<1> HIDE DEF w
<1>3. ASSUME NEW s, Heard(p, s) PROVE Heard(w, s)
  <2>1. PICK i \in 1..Len(p) :
           Says(p, i, s) /\ \A j \in (i + 1)..Len(p) : p[j].type # "state"
    BY <1>3 DEF Heard
  <2>2. Len(q) + i \in 1..Len(w) /\ Says(w, Len(q) + i, s)
    BY <1>1, <2>1 DEF Says
  <2>3. ASSUME NEW j \in (Len(q) + i + 1)..Len(w) PROVE w[j].type # "state"
    <3>1. j - Len(q) \in (i + 1)..Len(p) /\ j = Len(q) + (j - Len(q))
      BY <1>1
    <3>2. w[j] = p[j - Len(q)]
      BY <1>1, <3>1
    <3> QED BY <2>1, <3>1, <3>2
  <2> QED BY <2>2, <2>3 DEF Heard
<1>4. ASSUME NEW s, Mute(p), Heard(q, s) PROVE Heard(w, s)
  <2>1. PICK i \in 1..Len(q) :
           Says(q, i, s) /\ \A j \in (i + 1)..Len(q) : q[j].type # "state"
    BY <1>4 DEF Heard
  <2>2. i \in 1..Len(w) /\ Says(w, i, s)
    BY <1>1, <2>1 DEF Says
  <2>3. ASSUME NEW j \in (i + 1)..Len(w) PROVE w[j].type # "state"
    <3>1. CASE j \in 1..Len(q)
      BY <1>1, <2>1, <3>1
    <3>2. CASE \E k \in 1..Len(p) : j = Len(q) + k
      BY <1>1, <1>4, <3>2 DEF Mute
    <3> QED BY <1>1, <1>2, <3>1, <3>2
  <2> QED BY <2>2, <2>3 DEF Heard
<1>5. ASSUME Mute(p), Mute(q) PROVE Mute(w)
  <2>1. ASSUME NEW j \in 1..Len(w) PROVE w[j].type # "state"
    <3>1. CASE j \in 1..Len(q)
      BY <1>1, <1>5, <3>1 DEF Mute
    <3>2. CASE \E k \in 1..Len(p) : j = Len(q) + k
      BY <1>1, <1>5, <3>2 DEF Mute
    <3> QED BY <1>2, <3>1, <3>2
  <2> QED BY <2>1 DEF Mute
<1>6. ASSUME NEW u, NEW m, NEW s, Tells(q, u, m), Tells(p, m, s)
      PROVE  Tells(w, u, s)
  BY <1>3, <1>4, <1>5, <1>6 DEF Tells
<1>7. ASSUME NEW s PROVE Mentions(w, s) <=> Mentions(q, s) \/ Mentions(p, s)
  <2>1. ASSUME Mentions(w, s) PROVE Mentions(q, s) \/ Mentions(p, s)
    <3>1. PICK j \in 1..Len(w) : Says(w, j, s)
      BY <2>1 DEF Mentions
    <3>2. CASE j \in 1..Len(q)
      BY <1>1, <3>1, <3>2 DEF Mentions, Says
    <3>3. CASE \E k \in 1..Len(p) : j = Len(q) + k
      BY <1>1, <3>1, <3>3 DEF Mentions, Says
    <3> QED BY <1>2, <3>2, <3>3
  <2>2. ASSUME Mentions(q, s) PROVE Mentions(w, s)
    BY <1>1, <2>2 DEF Mentions, Says
  <2>3. ASSUME Mentions(p, s) PROVE Mentions(w, s)
    <3>1. PICK k \in 1..Len(p) : Says(p, k, s)
      BY <2>3 DEF Mentions
    <3>2. Len(q) + k \in 1..Len(w) /\ Says(w, Len(q) + k, s)
      BY <1>1, <3>1 DEF Says
    <3> QED BY <3>2 DEF Mentions
  <2> QED BY <2>1, <2>2, <2>3
<1> QED BY <1>3, <1>6, <1>7 DEF w

\* The end of a slot whose signals kept up.
LEMMA DoneTells ==
    ASSUME VpnInv, Truthful, NEW c \in VpnState, Speaks(vpn, c), VpnTruth(c),
           Done(c)
    PROVE  /\ Truthful' /\ Relayed
           /\ vpn'.attempt = c.attempt /\ vpn'.state = c.state
<1>1. /\ vpn'.kind = c.kind /\ vpn'.attempt = c.attempt
      /\ vpn'.state = c.state /\ vpn'.pstate = c.pstate
      /\ vpn'.proc = c.proc /\ vpn'.probe = c.probe /\ vpn'.late = c.late
      /\ vpn'.retry = c.retry /\ vpn'.out = <<>>
  BY DEF Done, VpnState
<1>2. VpnTruth(vpn')
  BY <1>1 DEF VpnTruth, Sane, Leaving, Backed, Made
<1>3. inbox \in Seq(Event) /\ c.out \in Seq(Event) /\ inbox' = inbox \o c.out
  <2>1. c.out \in Seq(Signal)
    BY DEF VpnState
  <2> QED BY <2>1, SeqMonotonic DEF Event, VpnInv, Done
<1>4. Tells(vpn.out, vpn.state, vpn.state)
  BY DEF Truthful, Tells, Mute
<1>5. Tells(c.out, vpn.state, c.state)
  BY <1>4 DEF Speaks
<1>6. Relayed
  BY <1>1, <1>3, <1>5, ConcatTold DEF Relayed
<1> QED BY <1>1, <1>2, <1>6 DEF Truthful

\* A slot that leaves neither "Connected" nor "Disconnecting" behind claims
\* nothing of the protocol.
LEMMA PlainTruth ==
    ASSUME NEW b, VpnTruth(b), NEW c, Turn(b, c), c.state \notin Claims
    PROVE  VpnTruth(c)
BY DEF Turn, VpnTruth, Leaving, Backed, Made, Claims

\* VpnConnection::connectToVpn says "Connecting" first, and whatever it ends
\* with last.
LEMMA ConnectTells ==
    ASSUME VpnInv, Truthful, NEW a \in Attempt, a.no > 0, connectToVpn(a)
    PROVE  /\ Truthful' /\ vpn'.attempt = a
           /\ \A u : Tells(inbox', u, vpn'.state)
           /\ Mentions(inbox', "Connecting")
<1>0. PICK garbage \in Uninitialised,
           late \in {FALSE, Stop(setConnectionState(vpn, "Connecting", a)).late} :
         LET c == factory(Stop(setConnectionState(vpn, "Connecting", a)), a,
                          garbage, late)
         IN  \/ Done(setConnectionState(c, "Error", a))
             \/ \E r \in Start(c) : Done(Started(r))
  BY DEF connectToVpn
<1> DEFINE b == setConnectionState(vpn, "Connecting", a)
           d == Stop(b)
           c == factory(d, a, garbage, late)
           e == setConnectionState(c, "Error", a)
<1>1. vpn \in VpnState /\ VpnOK(vpn) /\ vpn.out = <<>> /\ Sane(vpn)
  BY DEF VpnInv, VpnOK, Truthful, VpnTruth
<1>2. "Connecting" \in ConnectionState /\ "Error" \in ConnectionState
  BY DEF ConnectionState
<1>3. /\ VpnOK(b) /\ b \in VpnState /\ b.state = "Connecting" /\ Sane(b)
      /\ Heard(b.out, "Connecting") /\ Mentions(b.out, "Connecting")
  <2>1. VpnOK(b)
    BY <1>1, <1>2, StateSet
  <2>2. /\ b \in VpnState /\ SameRun(vpn, b) /\ b.state = "Connecting"
        /\ Heard(b.out, "Connecting") /\ Mentions(b.out, "Connecting")
    BY <1>1, <1>2, StateSpoken
  <2> HIDE DEF b
  <2> QED BY <1>1, <2>1, <2>2 DEF Sane, SameRun
<1> HIDE DEF b
<1>4. /\ VpnOK(d) /\ NoDns(d) /\ d \in VpnState /\ Turn(b, d)
      /\ d.state \notin Claims
  <2>1. VpnOK(d) /\ NoDns(d) /\ Turn(b, d)
    BY <1>3, Stopped, StopTurn
  <2> QED BY <1>3, <2>1 DEF Turn, Claims
<1>4a. late \in {FALSE, d.late}
  BY DEF b
<1> HIDE DEF d
<1>4b. late \in BOOLEAN
  BY <1>4, <1>4a DEF VpnState
<1>5. /\ VpnOK(c) /\ NoDns(c) /\ c \in VpnState
      /\ c.kind = KindOf[a.server]
  BY <1>4, <1>4b, FactoryOK DEF VpnOK
<1>6. /\ c.state = d.state /\ c.out = d.out /\ c.attempt = a
      /\ ~c.probe
  BY <1>4 DEF VpnState, factory
<1> HIDE DEF c
<1>7. Speaks(b, c) /\ c.state \notin Claims /\ Sane(c)
  BY <1>4, <1>6 DEF Turn, Speaks, Sane
<1>8. Turn(c, e) /\ e.state \notin Claims
  <2>1. /\ e \in VpnState /\ Speaks(c, e) /\ SameRun(c, e)
        /\ e.state = "Error"
    BY <1>2, <1>5, StateSpoken
  <2> HIDE DEF e
  <2> QED BY <2>1 DEF Turn, SameRun, Sane, Claims
<1>9. \A r \in Start(c) : Turn(c, Started(r)) /\ Started(r).state \notin Claims
  BY <1>5, <1>7, StartedTurn DEF Turn
<1>10. Done(e) \/ \E r \in Start(c) : Done(Started(r))
  BY <1>0 DEF e, c, d, b
<1>11. \E f : Turn(c, f) /\ f.state \notin Claims /\ Done(f)
  BY <1>8, <1>9, <1>10
<1> HIDE DEF e
<1>12. PICK f : Turn(c, f) /\ f.state \notin Claims /\ Done(f)
  BY <1>11
<1>13. f \in VpnState /\ f.attempt = a /\ VpnTruth(f)
  BY <1>5, <1>6, <1>7, <1>12 DEF Turn, VpnTruth, Leaving, Backed, Made, Claims
<1>14. /\ vpn'.kind = f.kind /\ vpn'.attempt = f.attempt
       /\ vpn'.state = f.state /\ vpn'.pstate = f.pstate
       /\ vpn'.proc = f.proc /\ vpn'.probe = f.probe /\ vpn'.late = f.late
       /\ vpn'.retry = f.retry /\ vpn'.out = <<>>
  BY <1>12, <1>13 DEF Done, VpnState
<1>15. Truthful'
  BY <1>13, <1>14 DEF Truthful, VpnTruth, Sane, Leaving, Backed, Made
<1>16. Heard(f.out, f.state) /\ Mentions(f.out, "Connecting")
  <2>1. Tells(b.out, "nothing", b.state)
    BY <1>3 DEF Tells
  <2>2. Tells(f.out, "nothing", f.state) /\ Mentions(f.out, "Connecting")
    BY <1>3, <1>7, <1>12, <2>1 DEF Turn, Speaks
  <2>3. f.state # "nothing"
    BY <1>13 DEF VpnState, ConnectionState
  <2> QED BY <2>2, <2>3 DEF Tells
<1>17. inbox \in Seq(Event) /\ f.out \in Seq(Event) /\ inbox' = inbox \o f.out
  <2>1. f.out \in Seq(Signal)
    BY <1>13 DEF VpnState
  <2> QED BY <1>12, <2>1, SeqMonotonic DEF Event, VpnInv, Done
<1>18. Heard(inbox', f.state) /\ Mentions(inbox', "Connecting")
  BY <1>16, <1>17, ConcatTold
<1> QED BY <1>13, <1>14, <1>15, <1>18 DEF Tells

\* A state set without the protocol: never "Connected", and "Disconnecting"
\* only on the way to the protocol's end.
LEMMA SetStateTells ==
    ASSUME VpnInv, Truthful, NEW s \in ConnectionState \ Claims,
           Done(setConnectionState(vpn, s, vpn.attempt))
    PROVE  /\ Truthful' /\ Relayed /\ vpn'.attempt = vpn.attempt
           /\ vpn'.timer = vpn.timer
           /\ Mentions(inbox', "Connected") => Mentions(inbox, "Connected")
<1> DEFINE c == setConnectionState(vpn, s, vpn.attempt)
<1>1. /\ vpn \in VpnState /\ vpn.attempt \in Attempt /\ VpnTruth(vpn)
      /\ vpn.out = <<>>
  BY DEF VpnInv, VpnOK, VpnState, Truthful
<1>2. /\ c \in VpnState /\ Speaks(vpn, c) /\ SameRun(vpn, c)
      /\ c.state = "Reconnecting" \/ c.state = s
      /\ c.timer = vpn.timer
      /\ \A t : Mentions(c.out, t) => Mentions(vpn.out, t) \/ t = s
  BY <1>1, StateSpoken
<1>3. Done(c)
  OBVIOUS
<1> HIDE DEF c
<1>4. VpnTruth(c)
  BY <1>1, <1>2 DEF VpnTruth, Sane, Leaving, Backed, Made, SameRun, Claims
<1>5. Truthful' /\ Relayed /\ vpn'.attempt = vpn.attempt
  BY <1>2, <1>3, <1>4, DoneTells DEF SameRun
<1>6. inbox \in Seq(Event) /\ c.out \in Seq(Event) /\ inbox' = inbox \o c.out
  <2>1. c.out \in Seq(Signal)
    BY <1>2 DEF VpnState
  <2> QED BY <1>3, <2>1, SeqMonotonic DEF Event, VpnInv, Done
<1>7. ~Mentions(c.out, "Connected")
  BY <1>1, <1>2 DEF Mentions, Claims
<1>8. vpn'.timer = vpn.timer
  BY <1>2, <1>3 DEF Done, VpnState
<1> QED BY <1>5, <1>6, <1>7, <1>8, ConcatTold

\* VpnConnection::disconnectFromVpn
LEMMA DisconnectTells ==
    ASSUME VpnInv, Truthful, disconnectFromVpn
    PROVE  /\ Truthful' /\ Relayed /\ vpn'.attempt = vpn.attempt
           /\ vpn.attempt.no = 0 =>
                 /\ vpn'.timer = vpn.timer
                 /\ Mentions(inbox', "Connected") => Mentions(inbox, "Connected")
<1>1. /\ vpn \in VpnState /\ vpn.attempt \in Attempt /\ VpnTruth(vpn)
      /\ vpn.out = <<>>
  BY DEF VpnInv, VpnOK, VpnState, Truthful
<1>2. CASE Done(setConnectionState(vpn, "Disconnected", vpn.attempt))
  <2>1. "Disconnected" \in ConnectionState \ Claims
    BY DEF ConnectionState, Claims
  <2> QED BY <1>2, <2>1, SetStateTells
<1>3. CASE vpn.kind # "none"
  <2> DEFINE b == setConnectionState(vpn, "Disconnecting", vpn.attempt)
             c == Stop(b)
             d == [c EXCEPT !.kind = "none", !.timer = FALSE, !.proc = "none",
                            !.retry = FALSE, !.siteTimer = FALSE]
  <2>1. "Disconnecting" \in ConnectionState
    BY DEF ConnectionState
  <2>2. /\ b \in VpnState /\ Speaks(vpn, b) /\ SameRun(vpn, b)
        /\ b.state = "Disconnecting"
    BY <1>1, <2>1, StateSpoken
  <2> HIDE DEF b
  <2>3. Turn(b, c) /\ c \in VpnState
    BY <2>2, StopTurn DEF Turn
  <2> HIDE DEF c
  <2>4. /\ d \in VpnState /\ d.state = c.state /\ d.out = c.out
        /\ d.kind = "none" /\ d.attempt = c.attempt
    BY <2>3 DEF VpnState, ProtocolKind
  <2>5. Done(d)
    BY <1>3 DEF disconnectFromVpn, d, c, b
  <2> HIDE DEF d
  <2>6. /\ Speaks(vpn, d) /\ d.state # "Connected"
        /\ d.attempt = vpn.attempt
    BY <2>2, <2>3, <2>4 DEF Turn, Speaks, SameRun
  <2>7. VpnTruth(d)
    BY <2>4, <2>6 DEF VpnTruth, Sane, Leaving, Backed, Made
  <2>8. vpn.attempt.no # 0
    BY <1>1, <1>3 DEF VpnTruth, Made
  <2> QED BY <2>4, <2>5, <2>6, <2>7, <2>8, DoneTells
<1> QED BY <1>2, <1>3 DEF disconnectFromVpn

\* VpnConnection::reconnectToVpn
LEMMA ReconnectTells ==
    ASSUME VpnInv, Truthful, reconnectToVpn
    PROVE  Truthful' /\ Relayed /\ vpn'.attempt = vpn.attempt
<1> DEFINE b == setConnectionState(vpn, "Reconnecting", vpn.attempt)
           c == Stop(b)
<1>1. /\ vpn \in VpnState /\ VpnOK(vpn) /\ vpn.attempt \in Attempt
      /\ VpnTruth(vpn)
  BY DEF VpnInv, VpnOK, VpnState, Truthful
<1>2. "Reconnecting" \in ConnectionState
  BY DEF ConnectionState
<1>3. VpnOK(b)
  BY <1>1, <1>2, StateSet
<1>4. /\ b \in VpnState /\ Speaks(vpn, b) /\ SameRun(vpn, b)
      /\ b.state = "Reconnecting"
  BY <1>1, <1>2, StateSpoken
<1> HIDE DEF b
<1>5. Turn(vpn, b) /\ b.state \notin Claims
  BY <1>4 DEF Turn, SameRun, Sane, Claims
<1>6. VpnOK(c) /\ NoDns(c) /\ Turn(b, c) /\ c.state \notin Claims
  <2>1. VpnOK(c) /\ NoDns(c) /\ Turn(b, c)
    BY <1>3, <1>4, Stopped, StopTurn
  <2> QED BY <1>5, <2>1 DEF Turn
<1> HIDE DEF c
<1>7. PICK r \in Start(c) : Done(Started(r))
  BY DEF reconnectToVpn, c, b
<1> DEFINE f == Started(r)
<1>8. Turn(c, f) /\ f.state \notin Claims /\ Done(f)
  BY <1>6, <1>7, StartedTurn DEF Turn
<1> HIDE DEF f
<1>9. Turn(vpn, f)
  BY <1>5, <1>6, <1>8, TurnTransitive
<1>10. VpnTruth(f)
  BY <1>1, <1>8, <1>9, PlainTruth
<1> QED BY <1>8, <1>9, <1>10, DoneTells DEF Turn

\* The one-second timer tells nothing.
LEMMA SiteRoutesTell ==
    ASSUME VpnInv, Truthful, addSitesRoutes
    PROVE  Truthful' /\ Relayed /\ vpn'.attempt = vpn.attempt
<1> DEFINE c == [vpn EXCEPT !.siteTimer = FALSE, !.routes = @ \cup {"sites"}]
<1>1. vpn \in VpnState /\ VpnTruth(vpn)
  BY DEF VpnInv, VpnOK, Truthful
<1>2. /\ c \in VpnState /\ c.pstate = vpn.pstate /\ c.state = vpn.state
      /\ c.out = vpn.out /\ SameRun(vpn, c)
  BY <1>1 DEF VpnState, SameRun
<1>3. Done(c)
  BY DEF addSitesRoutes
<1> HIDE DEF c
<1>4. Speaks(vpn, c) /\ VpnTruth(c)
  BY <1>1, <1>2
  DEF Speaks, VpnTruth, Sane, Leaving, Backed, Made, SameRun
<1> QED BY <1>2, <1>3, <1>4, DoneTells DEF SameRun

-----------------------------------------------------------------------------
(* The same for the events that reach the protocol object.                   *)

\* A protocol that is there is in the state that was claimed for it.
LEMMA ClaimHeld ==
    ASSUME NEW b \in VpnState, VpnTruth(b), b.kind # "none",
           b.state \in Claims
    PROVE  b.pstate = b.state
<1>1. b.attempt.no \in Nat
  BY DEF VpnState, Attempt
<1> QED BY <1>1 DEF VpnTruth, Leaving, Backed, Made, Claims

\* Without a protocol there is nothing to be true about.
LEMMA NoneTruth ==
    ASSUME NEW b, VpnTruth(b), NEW c, Turn(b, c), b.kind = "none"
    PROVE  VpnTruth(c)
BY DEF Turn, VpnTruth, Leaving, Backed, Made, Claims

\* VpnProtocol::onTimeout
LEMMA TimeoutTells ==
    ASSUME VpnInv, Truthful, onTimeout
    PROVE  Truthful' /\ Relayed /\ vpn'.attempt = vpn.attempt
<1> DEFINE b == [vpn EXCEPT !.timer = FALSE]
           d == setLastError(b, VpnTunnelDidNotComeUpError)
           c == protocolError(d, VpnTunnelDidNotComeUpError)
           e == cancelTrafficProbe(c)
           f == Stop(e)
<1>1. vpn \in VpnState /\ VpnTruth(vpn)
  BY DEF VpnInv, VpnOK, Truthful
<1>2. VpnTunnelDidNotComeUpError \in ErrorCode
  BY StartCodes
<1>3. /\ b \in VpnState /\ b.state = vpn.state /\ b.out = vpn.out
      /\ b.pstate = vpn.pstate /\ SameRun(vpn, b)
  BY <1>1 DEF VpnState, SameRun
<1> HIDE DEF b
<1>4. Turn(vpn, b)
  BY <1>1, <1>3, Untold DEF SameRun, Sane
<1>5. /\ Turn(b, d) /\ d \in VpnState
      /\ b.pstate # "Error" => d.state = "Error"
  BY <1>2, <1>3, ErrorTurn DEF Turn
<1> HIDE DEF d
<1>6. Turn(d, c) /\ c \in VpnState
  BY <1>2, <1>5, CodeTurn DEF Turn
<1> HIDE DEF c
<1>7. /\ e \in VpnState /\ e.state = c.state /\ e.out = c.out
      /\ e.kind = c.kind /\ e.attempt = c.attempt /\ e.late = c.late
      /\ ~e.probe
  BY <1>6 DEF VpnState, cancelTrafficProbe
<1> HIDE DEF e
<1>8. Turn(c, e)
  BY <1>6, <1>7, Untold DEF Sane
<1>9. Turn(e, f)
  BY <1>7, StopTurn
<1>10. Done(f)
  BY DEF onTimeout, f, e, c, d, b
<1> HIDE DEF f
<1>11. Turn(d, f) /\ Turn(vpn, f)
  BY <1>4, <1>5, <1>6, <1>8, <1>9, TurnTransitive
<1>12. VpnTruth(f)
  <2>1. CASE vpn.kind = "none"
    BY <1>1, <1>11, <2>1, NoneTruth
  <2>2. CASE vpn.kind # "none"
    <3>1. d.state \notin Claims
      <4>1. CASE vpn.pstate = "Error"
        BY <1>1, <1>3, <1>5, <2>2, <4>1, ClaimHeld DEF Turn, Claims
      <4>2. CASE vpn.pstate # "Error"
        BY <1>3, <1>5, <4>2 DEF Claims
      <4> QED BY <4>1, <4>2
    <3>2. f.state \notin Claims
      BY <1>11, <3>1 DEF Turn
    <3> QED BY <1>1, <1>11, <3>2, PlainTruth
  <2> QED BY <2>1, <2>2
<1> QED BY <1>10, <1>11, <1>12, DoneTells DEF Turn

\* The process is gone or the daemon says so: "Disconnected" follows, unless
\* VpnConnection reconnects.
LEMMA GoneTells ==
    ASSUME VpnInv, Truthful, vpn.kind # "none",
           NEW c \in VpnState, Turn(vpn, c), c.state = vpn.state,
           c.pstate = vpn.pstate, Done(protocolState(c, "Disconnected"))
    PROVE  Truthful' /\ Relayed /\ vpn'.attempt = vpn.attempt
<1> DEFINE d == protocolState(c, "Disconnected")
<1>1. vpn \in VpnState /\ VpnTruth(vpn)
  BY DEF VpnInv, VpnOK, Truthful
<1>2. "Disconnected" \in ConnectionState \ Claims
  BY DEF ConnectionState, Claims
<1>3. Turn(c, d)
  BY <1>2, ProtocolTurn
<1>4. (d = c /\ c.pstate = "Disconnected")
      \/ d.state \in {"Disconnected", "Reconnecting"}
  BY <1>2, ProtocolStateSpoken
<1>5. Done(d)
  OBVIOUS
<1> HIDE DEF d
<1>6. d.state \notin Claims
  <2>1. CASE d = c /\ c.pstate = "Disconnected"
    BY <1>1, <2>1, ClaimHeld DEF Claims
  <2>2. CASE d.state \in {"Disconnected", "Reconnecting"}
    BY <2>2 DEF Claims
  <2> QED BY <1>4, <2>1, <2>2
<1>7. Turn(vpn, d)
  BY <1>3, TurnTransitive
<1>8. VpnTruth(d)
  BY <1>1, <1>6, <1>7, PlainTruth
<1> QED BY <1>5, <1>7, <1>8, DoneTells DEF Turn

\* The tunnel of a protocol with a running process is up.
LEMMA UpTells ==
    ASSUME VpnInv, Truthful, vpn.kind # "none",
           vpn.proc = "running" \/ (vpn.kind = "WireGuard" /\ vpn.late),
           NEW c \in VpnState, c.state = vpn.state, c.out = vpn.out,
           c.pstate = vpn.pstate, c.kind = vpn.kind, c.proc = vpn.proc,
           c.attempt = vpn.attempt, c.late = vpn.late,
           c.probe => vpn.probe, Done(protocolState(c, "Connected"))
    PROVE  Truthful' /\ Relayed /\ vpn'.attempt = vpn.attempt
<1> DEFINE d == protocolState(c, "Connected")
<1>1. vpn \in VpnState /\ VpnTruth(vpn)
  BY DEF VpnInv, VpnOK, Truthful
<1>2. "Connected" \in ConnectionState
  BY DEF ConnectionState
<1>3. /\ d \in VpnState /\ Speaks(c, d) /\ SameRun(c, d)
      /\ (d = c /\ c.pstate = "Connected")
         \/ (d.pstate = "Connected" /\ d.state = "Connected")
  BY <1>2, ProtocolStateSpoken
<1>4. Done(d)
  OBVIOUS
<1> HIDE DEF d
<1>5. Sane(d) /\ Made(d)
  BY <1>1, <1>3 DEF VpnTruth, Sane, Made, SameRun
<1>6. Leaving(d) /\ Backed(d)
  <2>1. CASE d = c /\ c.pstate = "Connected"
    <3>1. vpn.state # "Disconnecting"
      BY <1>1, <2>1, ClaimHeld DEF Claims
    <3> QED BY <2>1, <3>1 DEF Leaving, Backed
  <2>2. CASE d.pstate = "Connected" /\ d.state = "Connected"
    BY <1>3, <2>2 DEF Leaving, Backed, SameRun
  <2> QED BY <1>3, <2>1, <2>2
<1>7. Speaks(vpn, d)
  BY <1>3 DEF Speaks
<1> QED BY <1>3, <1>4, <1>5, <1>6, <1>7, DoneTells DEF VpnTruth, SameRun

\* What the daemon and the probe report to the WireGuard protocol.
LEMMA WireguardEventTells ==
    ASSUME VpnInv, Truthful,
           \/ startTrafficProbe \/ onProbeFinished \/ probeDeadline
           \/ backendFailure \/ daemonDisconnected \/ misheardReport
    PROVE  Truthful' /\ Relayed /\ vpn'.attempt = vpn.attempt
<1>1. vpn \in VpnState /\ VpnTruth(vpn)
  BY DEF VpnInv, VpnOK, Truthful
<1>2. vpn.kind = "WireGuard"
  BY DEF startTrafficProbe, onProbeFinished, probeDeadline, backendFailure,
         daemonDisconnected, misheardReport, Running
<1>3. ASSUME Done([vpn EXCEPT !.awaited = FALSE, !.probe = TRUE,
                                !.timer = FALSE]),
             vpn.proc = "running" \/ vpn.late
      PROVE  Truthful' /\ Relayed /\ vpn'.attempt = vpn.attempt
  <2> DEFINE c == [vpn EXCEPT !.awaited = FALSE, !.probe = TRUE, !.timer = FALSE]
  <2>1. /\ c \in VpnState /\ c.kind = vpn.kind /\ c.pstate = vpn.pstate
        /\ c.state = vpn.state /\ c.out = vpn.out /\ c.late = vpn.late
        /\ c.attempt = vpn.attempt /\ c.proc = vpn.proc /\ c.retry = vpn.retry
    BY <1>1 DEF VpnState
  <2>2. Done(c) /\ (vpn.proc = "running" \/ vpn.late)
    BY <1>3
  <2> HIDE DEF c
  <2>3. Speaks(vpn, c) /\ VpnTruth(c)
    BY <1>1, <2>1, <2>2
    DEF Speaks, VpnTruth, Sane, Leaving, Backed, Made
  <2> QED BY <2>1, <2>2, <2>3, DoneTells
<1>4. CASE onProbeFinished
  <2> DEFINE c == cancelTrafficProbe(vpn)
  <2>1. /\ c \in VpnState /\ c.kind = vpn.kind /\ c.pstate = vpn.pstate
        /\ c.state = vpn.state /\ c.out = vpn.out /\ c.late = vpn.late
        /\ c.attempt = vpn.attempt /\ c.proc = vpn.proc /\ ~c.probe
    BY <1>1 DEF VpnState, cancelTrafficProbe
  <2>2. Done(protocolState(c, "Connected")) /\ vpn.probe
    BY <1>4 DEF onProbeFinished
  <2> HIDE DEF c
  <2>3. vpn.proc = "running" \/ vpn.late
    BY <1>1, <1>2, <2>2 DEF VpnTruth, Sane
  <2> QED BY <1>2, <2>1, <2>2, <2>3, UpTells
<1>5. ASSUME NEW e \in ErrorCode, Done(failConnection(vpn, e))
      PROVE  Truthful' /\ Relayed /\ vpn'.attempt = vpn.attempt
  <2> DEFINE d == failConnection(vpn, e)
  <2>1. Turn(vpn, d) /\ (d = vpn \/ d.state \notin Claims)
    <3>1. vpn.state \in Claims => vpn.pstate # "Error"
      BY <1>1, <1>2, ClaimHeld DEF Claims
    <3> QED BY <1>1, <3>1, FailTurn
  <2>2. Done(d)
    BY <1>5
  <2> HIDE DEF d
  <2>3. VpnTruth(d)
    BY <1>1, <2>1, PlainTruth
  <2> QED BY <2>1, <2>2, <2>3, DoneTells DEF Turn
<1>6. CASE probeDeadline \/ backendFailure
  BY <1>5, <1>6, StartCodes DEF probeDeadline, backendFailure
<1>7. CASE daemonDisconnected
  <2> DEFINE c == [cancelTrafficProbe(vpn) EXCEPT !.proc = "none",
                                                  !.late = FALSE]
  <2>1. /\ c \in VpnState /\ c.kind = vpn.kind /\ c.pstate = vpn.pstate
        /\ c.state = vpn.state /\ c.out = vpn.out
        /\ c.attempt = vpn.attempt /\ ~c.probe
    BY <1>1 DEF VpnState, cancelTrafficProbe
  <2>2. Done(protocolState(c, "Disconnected"))
    BY <1>7 DEF daemonDisconnected
  <2> HIDE DEF c
  <2>3. Turn(vpn, c)
    BY <1>1, <2>1, Untold DEF Sane
  <2> QED BY <1>2, <2>1, <2>2, <2>3, GoneTells
<1> DEFINE h == [cancelTrafficProbe(vpn) EXCEPT !.late = FALSE]
<1>8. /\ h \in VpnState /\ h.kind = vpn.kind /\ h.pstate = vpn.pstate
      /\ h.state = vpn.state /\ h.out = vpn.out
      /\ h.attempt = vpn.attempt /\ ~h.probe
  BY <1>1 DEF VpnState, cancelTrafficProbe
<1>10. CASE misheardReport
  <2>1. CASE Done(protocolState(h, "Disconnected"))
    <3> HIDE DEF h
    <3>1. Turn(vpn, h)
      BY <1>1, <1>8, Untold DEF Sane
    <3> QED BY <1>2, <1>8, <2>1, <3>1, GoneTells
  <2> QED BY <1>3, <1>5, <1>10, <2>1, StartCodes DEF misheardReport
<1>11. CASE startTrafficProbe
  BY <1>3, <1>11 DEF startTrafficProbe, Running
<1> QED BY <1>4, <1>6, <1>7, <1>10, <1>11

\* An answer of the daemon that changes nothing.
LEMMA LateTells ==
    ASSUME VpnInv, Truthful, lateDisconnected
    PROVE  Truthful' /\ Relayed /\ vpn'.attempt = vpn.attempt
<1> DEFINE h == [cancelTrafficProbe(vpn) EXCEPT !.late = FALSE]
<1>1. vpn \in VpnState /\ VpnTruth(vpn)
  BY DEF VpnInv, VpnOK, Truthful
<1>2. /\ h \in VpnState /\ h.kind = vpn.kind /\ h.pstate = vpn.pstate
      /\ h.state = vpn.state /\ h.out = vpn.out /\ h.proc = vpn.proc
      /\ h.attempt = vpn.attempt /\ h.retry = vpn.retry /\ ~h.probe
  BY <1>1 DEF VpnState, cancelTrafficProbe
<1>3. Done(h) /\ (vpn.kind = "WireGuard" => vpn.pstate = "Disconnected")
  BY DEF lateDisconnected
<1> HIDE DEF h
<1>4. Turn(vpn, h)
  BY <1>1, <1>2, Untold DEF Sane
<1>5. VpnTruth(h)
  <2>1. CASE vpn.kind = "WireGuard"
    <3>1. vpn.state \notin Claims
      BY <1>1, <1>3, <2>1, ClaimHeld DEF Claims
    <3> QED BY <1>1, <1>2, <1>4, <3>1, PlainTruth
  <2>2. CASE vpn.kind # "WireGuard"
    BY <1>1, <1>2, <2>2 DEF VpnTruth, Sane, Leaving, Backed, Made
  <2> QED BY <2>1, <2>2
<1> QED BY <1>2, <1>3, <1>4, <1>5, DoneTells DEF Turn

\* What the management socket and the process report to the OpenVPN protocol.
LEMMA OpenVpnEventTells ==
    ASSUME VpnInv, Truthful,
           \/ managementConnected \/ managementReconnecting
           \/ managementExiting \/ managementFatal \/ openVpnFinished
    PROVE  Truthful' /\ Relayed /\ vpn'.attempt = vpn.attempt
<1>1. vpn \in VpnState /\ VpnTruth(vpn)
  BY DEF VpnInv, VpnOK, Truthful
<1>2. vpn.kind = "OpenVpn"
  BY DEF managementConnected, managementReconnecting, managementExiting,
         managementFatal, openVpnFinished, Running
<1>3. /\ "Reconnecting" \in ConnectionState \ Claims
      /\ "Disconnecting" \in ConnectionState
  BY DEF ConnectionState, Claims
<1>4. CASE managementConnected
  <2> DEFINE c == [vpn EXCEPT !.timer = FALSE]
  <2>1. /\ c \in VpnState /\ c.kind = vpn.kind /\ c.pstate = vpn.pstate
        /\ c.state = vpn.state /\ c.out = vpn.out /\ c.late = vpn.late
        /\ c.attempt = vpn.attempt /\ c.proc = vpn.proc
        /\ c.probe = vpn.probe
    BY <1>1 DEF VpnState
  <2>2. Done(protocolState(c, "Connected")) /\ vpn.proc = "running"
    BY <1>4 DEF managementConnected, Running
  <2> HIDE DEF c
  <2> QED BY <1>2, <2>1, <2>2, UpTells
<1>5. CASE managementReconnecting
  <2> DEFINE d == protocolState(vpn, "Reconnecting")
  <2>1. Done(d) /\ vpn.pstate # "Reconnecting"
    BY <1>5 DEF managementReconnecting
  <2>2. Turn(vpn, d)
    BY <1>1, <1>3, ProtocolTurn
  <2>3. d.state = "Reconnecting"
    BY <1>1, <1>3, <2>1, ProtocolStateSpoken
  <2> HIDE DEF d
  <2>4. VpnTruth(d)
    BY <1>1, <2>2, <2>3, PlainTruth DEF Claims
  <2> QED BY <2>1, <2>2, <2>4, DoneTells DEF Turn
<1>6. CASE managementExiting
  <2> DEFINE c == protocolState(vpn, "Disconnecting")
             d == [c EXCEPT !.proc = "exiting"]
  <2>1. /\ c \in VpnState /\ Speaks(vpn, c) /\ SameRun(vpn, c)
        /\ (c = vpn /\ vpn.pstate = "Disconnected")
           \/ (c.pstate = "Disconnecting" /\ c.state = "Disconnecting")
    <3>1. vpn.pstate # "Disconnecting"
      BY <1>6 DEF managementExiting
    <3> QED BY <1>1, <1>3, <3>1, ProtocolStateSpoken
  <2>2. Done(d)
    BY <1>6 DEF managementExiting
  <2> HIDE DEF c
  <2>3. /\ d \in VpnState /\ d.kind = c.kind /\ d.pstate = c.pstate
        /\ d.state = c.state /\ d.out = c.out /\ d.late = c.late
        /\ d.attempt = c.attempt /\ d.proc = "exiting"
    BY <2>1 DEF VpnState
  <2> HIDE DEF d
  <2>4. Speaks(vpn, d) /\ d.attempt = vpn.attempt
    BY <2>1, <2>3 DEF Speaks, SameRun
  <2>5. d.state = "Disconnecting" \/ d.state \notin Claims
    <3>1. CASE c = vpn /\ vpn.pstate = "Disconnected"
      BY <1>1, <1>2, <2>3, <3>1, ClaimHeld DEF Claims
    <3> QED BY <2>1, <2>3, <3>1
  <2>6. d.state = "Disconnecting" => d.pstate = "Disconnecting"
    <3>1. CASE c = vpn /\ vpn.pstate = "Disconnected"
      BY <1>1, <1>2, <2>3, <3>1, ClaimHeld DEF Claims
    <3> QED BY <2>1, <2>3, <3>1
  <2>7. VpnTruth(d)
    BY <1>1, <1>2, <2>1, <2>3, <2>5, <2>6
    DEF VpnTruth, Sane, Leaving, Backed, Made, SameRun, Claims
  <2> QED BY <2>2, <2>3, <2>4, <2>7, DoneTells
<1>7. CASE managementFatal
  <2> DEFINE d == protocolError(vpn, OpenVpnUnknownError)
  <2>1. /\ Turn(vpn, d) /\ SameRun(vpn, d)
        /\ d.state = vpn.state /\ d.pstate = vpn.pstate
    BY <1>1, StartCodes, CodeTurn
  <2>2. Done(d)
    BY <1>7 DEF managementFatal
  <2> HIDE DEF d
  <2>3. VpnTruth(d)
    BY <1>1, <2>1 DEF VpnTruth, Sane, Leaving, Backed, Made, SameRun
  <2> QED BY <2>1, <2>2, <2>3, DoneTells DEF Turn
<1>8. CASE openVpnFinished
  <2> DEFINE c == [vpn EXCEPT !.proc = "none"]
  <2>1. /\ c \in VpnState /\ c.kind = vpn.kind /\ c.pstate = vpn.pstate
        /\ c.state = vpn.state /\ c.out = vpn.out /\ c.late = vpn.late
        /\ c.attempt = vpn.attempt
    BY <1>1 DEF VpnState
  <2>2. Done(protocolState(c, "Disconnected"))
    BY <1>8 DEF openVpnFinished
  <2> HIDE DEF c
  <2>3. Turn(vpn, c)
    BY <1>1, <1>2, <2>1, Untold DEF Sane
  <2> QED BY <1>2, <2>1, <2>2, <2>3, GoneTells
<1> QED BY <1>4, <1>5, <1>6, <1>7, <1>8

\* What tun2socks reports to the Xray protocol.
LEMMA XrayEventTells ==
    ASSUME VpnInv, Truthful,
           \/ tun2socksReady \/ tun2socksBusy \/ startTun2Socks
           \/ tun2socksFinished
    PROVE  Truthful' /\ Relayed /\ vpn'.attempt = vpn.attempt
<1>1. vpn \in VpnState /\ VpnTruth(vpn) /\ vpn.retries \in Nat
  BY DEF VpnInv, VpnOK, Truthful, VpnState
<1>2. vpn.kind = "Xray"
  BY DEF tun2socksReady, tun2socksBusy, startTun2Socks, tun2socksFinished,
         Running
<1>3. ASSUME NEW c, Turn(vpn, c), NEW e \in ErrorCode,
             Done(setLastError(stopXray(c), e))
      PROVE  Truthful' /\ Relayed /\ vpn'.attempt = vpn.attempt
  <2> DEFINE d == stopXray(c)
             f == setLastError(d, e)
  <2>1. Turn(c, d) /\ d.pstate = "Disconnected" /\ d \in VpnState
    BY <1>2, <1>3, XrayStopTurn DEF Turn
  <2> HIDE DEF d
  <2>2. Turn(d, f) /\ f.state = "Error"
    BY <2>1, <1>3, ErrorTurn
  <2>3. Done(f)
    BY <1>3 DEF f, d
  <2> HIDE DEF f
  <2>4. Turn(vpn, f)
    BY <1>3, <2>1, <2>2, TurnTransitive
  <2>5. VpnTruth(f)
    BY <1>1, <2>2, <2>4, PlainTruth DEF Claims
  <2> QED BY <2>3, <2>4, <2>5, DoneTells DEF Turn
<1>4. Turn(vpn, vpn)
  BY <1>1 DEF Turn, Speaks
<1>5. CASE tun2socksReady
  <2>1. CASE Done(protocolState(vpn, "Connected"))
    <3>1. vpn.proc = "running"
      BY <1>5 DEF tun2socksReady, Running
    <3> QED BY <1>1, <1>2, <2>1, <3>1, UpTells
  <2>2. CASE Done(setLastError(stopXray(vpn), InternalError))
    BY <1>3, <1>4, <2>2, StartCodes
  <2> QED BY <1>5, <2>1, <2>2 DEF tun2socksReady
<1>6. CASE tun2socksBusy
  <2> DEFINE n == vpn.retries + 1
             c == [vpn EXCEPT !.proc = "none", !.retries = n, !.retry = TRUE]
  <2>1. n \in Nat
    BY <1>1
  <2>2. Done(c) /\ vpn.proc = "running"
    BY <1>6 DEF tun2socksBusy, Running
  <2> HIDE DEF n
  <2>3. /\ c \in VpnState /\ c.kind = vpn.kind /\ c.pstate = vpn.pstate
        /\ c.state = vpn.state /\ c.out = vpn.out /\ c.late = vpn.late
        /\ c.attempt = vpn.attempt /\ c.retry
    BY <1>1, <2>1 DEF VpnState
  <2> HIDE DEF c
  <2>4. Speaks(vpn, c) /\ VpnTruth(c)
    BY <1>1, <1>2, <2>2, <2>3
    DEF Speaks, VpnTruth, Sane, Leaving, Backed, Made
  <2> QED BY <2>2, <2>3, <2>4, DoneTells
<1>7. CASE startTun2Socks
  <2> DEFINE c == [vpn EXCEPT !.retry = FALSE]
             d == [c EXCEPT !.proc = "running"]
  <2>1. /\ c \in VpnState /\ c.kind = vpn.kind /\ c.pstate = vpn.pstate
        /\ c.state = vpn.state /\ c.out = vpn.out /\ c.late = vpn.late
        /\ c.attempt = vpn.attempt /\ c.proc = vpn.proc
    BY <1>1 DEF VpnState
  <2>2. \/ Done(d)
        \/ Done(setLastError(stopXray(c), AmneziaServiceConnectionFailed))
    BY <1>7 DEF startTun2Socks
  <2> HIDE DEF c
  <2>3. Turn(vpn, c)
    BY <1>1, <1>2, <2>1, Untold DEF Sane
  <2>4. /\ d \in VpnState /\ d.kind = c.kind /\ d.pstate = c.pstate
        /\ d.state = c.state /\ d.out = c.out /\ d.late = c.late
        /\ d.attempt = c.attempt /\ d.proc = "running"
    BY <2>1 DEF VpnState
  <2> HIDE DEF d
  <2>5. Speaks(vpn, d) /\ VpnTruth(d)
    BY <1>1, <1>2, <2>1, <2>4
    DEF Speaks, VpnTruth, Sane, Leaving, Backed, Made
  <2>6. CASE Done(d)
    BY <2>1, <2>4, <2>5, <2>6, DoneTells
  <2>7. CASE Done(setLastError(stopXray(c), AmneziaServiceConnectionFailed))
    BY <1>3, <2>3, <2>7, StartCodes
  <2> QED BY <2>2, <2>6, <2>7
<1>8. CASE tun2socksFinished
  <2> DEFINE c == [vpn EXCEPT !.retries = 0]
  <2>1. /\ c \in VpnState /\ c.kind = vpn.kind
        /\ c.state = vpn.state /\ c.out = vpn.out /\ c.late = vpn.late
        /\ c.attempt = vpn.attempt
    BY <1>1 DEF VpnState
  <2>2. Done(setLastError(stopXray(c), Tun2SockExecutableCrashed))
    BY <1>8 DEF tun2socksFinished
  <2> HIDE DEF c
  <2>3. Turn(vpn, c)
    BY <1>1, <1>2, <2>1, Untold DEF Sane
  <2> QED BY <1>3, <2>2, <2>3, StartCodes
<1> QED BY <1>5, <1>6, <1>7, <1>8

\* Before the first attempt no event reaches a protocol, and the one-second
\* timer says nothing.
LEMMA UnmadeSilent ==
    ASSUME VpnInv, Truthful, vpn.attempt.no = 0, ~vpn.timer,
           \/ onTimeout \/ ProtocolEvent \/ reconnectToVpn \/ addSitesRoutes
           \/ misheardReport
    PROVE  ~vpn'.timer /\ inbox' = inbox
<1>1. /\ vpn \in VpnState /\ inbox \in Seq(Event) /\ vpn.out = <<>>
      /\ vpn.kind = "none"
  BY DEF VpnInv, VpnOK, Truthful, VpnTruth, Made
<1>2. addSitesRoutes \/ lateDisconnected
  BY <1>1
  DEF onTimeout, reconnectToVpn, ProtocolEvent, Running,
      startTrafficProbe, onProbeFinished, probeDeadline, backendFailure,
      daemonDisconnected, misheardReport, managementConnected,
      managementReconnecting, managementExiting, managementFatal,
      openVpnFinished, tun2socksReady, tun2socksBusy, startTun2Socks,
      tun2socksFinished
<1>3. ASSUME NEW c \in VpnState, c.out = <<>>, c.timer = vpn.timer, Done(c)
      PROVE  ~vpn'.timer /\ inbox' = inbox
  <2>1. vpn'.timer = c.timer
    BY <1>3 DEF Done, VpnState
  <2>2. inbox' = inbox
    BY <1>1, <1>3, ConcatEmptySeq DEF Done
  <2> QED BY <1>3, <2>1, <2>2
<1>4. CASE addSitesRoutes
  <2> DEFINE c == [vpn EXCEPT !.siteTimer = FALSE, !.routes = @ \cup {"sites"}]
  <2>1. c \in VpnState /\ c.out = <<>> /\ c.timer = vpn.timer
    BY <1>1 DEF VpnState
  <2>2. Done(c)
    BY <1>4 DEF addSitesRoutes
  <2> HIDE DEF c
  <2> QED BY <1>3, <2>1, <2>2
<1>5. CASE lateDisconnected
  <2> DEFINE c == [cancelTrafficProbe(vpn) EXCEPT !.late = FALSE]
  <2>1. c \in VpnState /\ c.out = <<>> /\ c.timer = vpn.timer
    BY <1>1 DEF VpnState, cancelTrafficProbe
  <2>2. Done(c)
    BY <1>5 DEF lateDisconnected
  <2> HIDE DEF c
  <2> QED BY <1>3, <2>1, <2>2
<1> QED BY <1>2, <1>4, <1>5

\* Every event of the VPN thread that is not a command.
LEMMA EventTells ==
    ASSUME VpnInv, Truthful,
           \/ onTimeout \/ ProtocolEvent \/ reconnectToVpn \/ addSitesRoutes
           \/ misheardReport
    PROVE  Truthful' /\ Relayed /\ vpn'.attempt = vpn.attempt
BY TimeoutTells, WireguardEventTells, LateTells, OpenVpnEventTells,
   XrayEventTells, ReconnectTells, SiteRoutesTell
DEF ProtocolEvent

\* The constructor: no protocol, nothing told.
LEMMA VpnInitTruthful ==
    ASSUME VpnInit
    PROVE  Truthful /\ vpn.attempt.no = 0 /\ ~vpn.timer
BY DEF VpnInit, Truthful, VpnTruth, Sane, Leaving, Backed, Made, NoAttempt

-----------------------------------------------------------------------------
(* What a slot says, signal by signal, when no report is misheard and no      *)
(* server uses Xray: which states, of which attempt, in which order.         *)

Plain == \A s \in Servers : KindOf[s] # "Xray"

StateAt(q, i, S) == q[i].type = "state" /\ q[i].state \in S

Working == {"Connecting", "Connected", "Reconnecting"}

Over == {"Disconnected", "Error"}

Leaves == {"Disconnecting"} \cup Over

\* From position k on, the states of q are in S and stem from attempt a.
OnlyFrom(q, k, S, a) ==
    \A i \in k..Len(q) :
        q[i].type = "state" => q[i].state \in S /\ q[i].attempt = a

Grows(q, p) == Len(q) <= Len(p) /\ \A i \in 1..Len(q) : p[i] = q[i]

\* On the way from c to d the slot emits states in S for its own attempt.
Adds(c, d, S) ==
    /\ d \in VpnState /\ d.kind = c.kind /\ d.attempt = c.attempt
    /\ Grows(c.out, d.out)
    /\ OnlyFrom(d.out, Len(c.out) + 1, S, c.attempt)

\* A signal more.
LEMMA SignalAdds ==
    ASSUME NEW c \in VpnState, NEW d \in VpnState, NEW S, NEW e \in Signal,
           d.kind = c.kind, d.attempt = c.attempt, d.out = Append(c.out, e),
           e.type = "state" => e.state \in S /\ e.attempt = c.attempt
    PROVE  Adds(c, d, S)
<1>1. c.out \in Seq(Signal)
  BY DEF VpnState
<1>2. /\ Len(d.out) = Len(c.out) + 1 /\ d.out[Len(c.out) + 1] = e
      /\ Len(c.out) \in Nat
      /\ \A i \in 1..Len(c.out) : d.out[i] = c.out[i]
  BY <1>1, AppendProperties, LenProperties
<1>3. Grows(c.out, d.out)
  BY <1>2 DEF Grows
<1>5. OnlyFrom(d.out, Len(c.out) + 1, S, c.attempt)
  BY <1>2 DEF OnlyFrom
<1> QED BY <1>3, <1>5 DEF Adds

\* Nothing more.
LEMMA SilenceAdds ==
    ASSUME NEW c \in VpnState, NEW d \in VpnState, NEW S,
           d.kind = c.kind, d.attempt = c.attempt, d.out = c.out
    PROVE  Adds(c, d, S)
<1>1. Len(c.out) \in Nat
  BY LenProperties DEF VpnState
<1> QED BY <1>1 DEF Adds, Grows, OnlyFrom

\* One operator after another.
LEMMA AddsTransitive ==
    ASSUME NEW b \in VpnState, NEW c, NEW d, NEW S, Adds(b, c, S), Adds(c, d, S)
    PROVE  Adds(b, d, S)
<1>1. Len(b.out) \in Nat /\ Len(c.out) \in Nat /\ Len(d.out) \in Nat
  BY LenProperties DEF VpnState, Adds
<1>2. /\ Len(b.out) <= Len(c.out) /\ Len(c.out) <= Len(d.out)
      /\ \A i \in 1..Len(b.out) : c.out[i] = b.out[i]
      /\ \A i \in 1..Len(c.out) : d.out[i] = c.out[i]
  BY DEF Adds, Grows
<1>3. Grows(b.out, d.out)
  BY <1>1, <1>2 DEF Grows
<1>4. ASSUME NEW i \in (Len(b.out) + 1)..Len(d.out), d.out[i].type = "state"
      PROVE  d.out[i].state \in S /\ d.out[i].attempt = b.attempt
  <2>1. CASE i <= Len(c.out)
    <3>1. i \in (Len(b.out) + 1)..Len(c.out) /\ d.out[i] = c.out[i]
      BY <1>1, <1>2, <2>1
    <3> QED BY <1>4, <3>1 DEF Adds, OnlyFrom
  <2>2. CASE i > Len(c.out)
    <3>1. i \in (Len(c.out) + 1)..Len(d.out)
      BY <1>1, <2>2
    <3> QED BY <1>4, <3>1 DEF Adds, OnlyFrom
  <2> QED BY <1>1, <2>1, <2>2
<1>5. OnlyFrom(d.out, Len(b.out) + 1, S, b.attempt)
  BY <1>4 DEF OnlyFrom
<1> QED BY <1>3, <1>5 DEF Adds

\* VpnConnection::setConnectionState on behalf of the protocol it has.
LEMMA StateAdds ==
    ASSUME NEW c \in VpnState, NEW s \in ConnectionState, NEW S, s \in S
    PROVE  LET d == setConnectionState(c, s, c.attempt)
           IN  /\ Adds(c, d, S) /\ SameRun(c, d)
               /\ d.pstate = c.pstate /\ d.timer = c.timer
               /\ d.reported = c.reported
               /\ d.state = IF s = "Disconnected" /\ c.state = "Reconnecting"
                            THEN c.state ELSE s
<1> DEFINE d == onConnectionStateChanged(c, s)
           e == [d EXCEPT !.state = s]
           g == StateSignal(s, c.attempt)
           f == Emit(e, g)
<1>1. /\ d \in VpnState /\ d.pstate = c.pstate /\ SameRun(c, d)
      /\ d.out = c.out /\ d.state = c.state /\ d.timer = c.timer
      /\ d.reported = c.reported
  <2>1. d \in VpnState
    BY RoutesChanged
  <2> QED BY <2>1, VpnAssumption DEF onConnectionStateChanged, VpnState, SameRun
<1> HIDE DEF d
<1>2. /\ e \in VpnState /\ e.pstate = c.pstate /\ SameRun(c, e)
      /\ e.out = c.out /\ e.state = s /\ e.timer = c.timer
      /\ e.reported = c.reported
  BY <1>1 DEF VpnState, SameRun
<1> HIDE DEF e
<1>3. /\ g \in Signal /\ g.type = "state" /\ g.state = s
      /\ g.attempt = c.attempt
  BY DEF StateSignal, Signal, VpnState
<1> HIDE DEF g
<1>4. Append(e.out, g) \in Seq(Signal)
  BY <1>2, <1>3, AppendProperties DEF VpnState
<1>5. /\ f \in VpnState /\ f.pstate = c.pstate /\ SameRun(c, f)
      /\ f.out = Append(c.out, g) /\ f.state = s
      /\ f.timer = c.timer /\ f.reported = c.reported
  BY <1>2, <1>4 DEF Emit, VpnState, SameRun
<1> HIDE DEF f
<1>6. Adds(c, f, S)
  BY <1>3, <1>5, SignalAdds DEF SameRun
<1>7. Adds(c, d, S)
  BY <1>1, SilenceAdds DEF SameRun
<1>8. CASE s = "Disconnected" /\ c.state = "Reconnecting"
  <2>1. setConnectionState(c, s, c.attempt) = d
    BY <1>8 DEF setConnectionState, d
  <2> QED BY <1>1, <1>7, <1>8, <2>1
<1>9. CASE ~(s = "Disconnected" /\ c.state = "Reconnecting")
  <2>1. setConnectionState(c, s, c.attempt) = f
    BY <1>9 DEF setConnectionState, d, e, f, g
  <2> QED BY <1>5, <1>6, <1>9, <2>1
<1> QED BY <1>8, <1>9

\* VpnProtocol::setConnectionState
LEMMA ProtocolAdds ==
    ASSUME NEW c \in VpnState, NEW s \in ConnectionState, NEW S, s \in S
    PROVE  LET d == protocolState(c, s)
           IN  /\ Adds(c, d, S) /\ SameRun(c, d) /\ d.reported = c.reported
               /\ (\/ c.pstate = s
                   \/ (c.pstate = "Disconnected" /\ s = "Disconnecting"))
                     => d = c
               /\ ~(\/ c.pstate = s
                    \/ (c.pstate = "Disconnected" /\ s = "Disconnecting"))
                     => /\ d.pstate = s /\ d.timer = TimerAfter(s, c.timer)
                        /\ d.state = IF s = "Disconnected"
                                        /\ c.state = "Reconnecting"
                                     THEN c.state ELSE s
<1> DEFINE t == TimerAfter(s, c.timer)
           e == [c EXCEPT !.pstate = s, !.timer = t]
           f == setConnectionState(e, s, e.attempt)
<1>1. t \in BOOLEAN
  BY DEF TimerAfter, VpnState
<1> HIDE DEF t
<1>2. /\ e \in VpnState /\ e.pstate = s /\ SameRun(c, e) /\ e.timer = t
      /\ e.out = c.out /\ e.state = c.state /\ e.reported = c.reported
  BY <1>1 DEF VpnState, SameRun
<1> HIDE DEF e
<1>3. /\ Adds(e, f, S) /\ SameRun(e, f) /\ f.pstate = s /\ f.timer = t
      /\ f.state = IF s = "Disconnected" /\ e.state = "Reconnecting"
                   THEN e.state ELSE s
      /\ f.reported = e.reported
  BY <1>2, StateAdds
<1> HIDE DEF f
<1>4. Adds(c, e, S)
  BY <1>2, SilenceAdds DEF SameRun
<1>5. Adds(c, f, S)
  BY <1>3, <1>4, AddsTransitive
<1>6. CASE \/ c.pstate = s
           \/ (c.pstate = "Disconnected" /\ s = "Disconnecting")
  <2>1. protocolState(c, s) = c
    BY <1>6 DEF protocolState
  <2>2. Adds(c, c, S)
    BY SilenceAdds
  <2> QED BY <1>6, <2>1, <2>2 DEF SameRun
<1>7. CASE ~(\/ c.pstate = s
             \/ (c.pstate = "Disconnected" /\ s = "Disconnecting"))
  <2>1. protocolState(c, s) = f
    BY <1>2, <1>7 DEF protocolState, f, e, t, SameRun
  <2> QED BY <1>2, <1>3, <1>5, <1>7, <2>1 DEF SameRun, t
<1> QED BY <1>6, <1>7

\* VpnProtocol::setLastError
LEMMA ErrorAdds ==
    ASSUME NEW c \in VpnState, NEW e \in ProtocolErrorCodes,
           NEW S, "Error" \in S
    PROVE  LET d == setLastError(c, e)
           IN  /\ Adds(c, d, S) /\ SameRun(c, d) /\ d.pstate = "Error"
               /\ d.reported = c.reported
               /\ c.pstate = "Error" => d.timer = c.timer /\ d.state = c.state
               /\ c.pstate # "Error" => d.timer = FALSE /\ d.state = "Error"
<1> DEFINE f == [c EXCEPT !.lastError = e]
           d == protocolState(f, "Error")
<1>1. e \in ErrorCode
  BY DEF ErrorCode
<1>2. /\ f \in VpnState /\ f.state = c.state /\ f.out = c.out
      /\ SameRun(c, f) /\ f.pstate = c.pstate /\ f.timer = c.timer
      /\ f.reported = c.reported
  BY <1>1 DEF VpnState, SameRun
<1>3. "Error" \in ConnectionState
  BY DEF ConnectionState
<1> HIDE DEF f
<1>4. /\ Adds(f, d, S) /\ SameRun(f, d) /\ d.reported = f.reported
      /\ f.pstate = "Error" => d = f
      /\ f.pstate # "Error" => /\ d.pstate = "Error" /\ d.state = "Error"
                               /\ d.timer = TimerAfter("Error", f.timer)
  BY <1>2, <1>3, ProtocolAdds
<1> HIDE DEF d
<1>5. Adds(c, f, S)
  BY <1>2, SilenceAdds DEF SameRun
<1>6. Adds(c, d, S) /\ SameRun(c, d)
  BY <1>2, <1>4, <1>5, AddsTransitive DEF SameRun
<1>7. setLastError(c, e) = d
  BY DEF setLastError, d, f
<1>8. TimerAfter("Error", f.timer) = FALSE
  BY DEF TimerAfter
<1> QED BY <1>2, <1>4, <1>6, <1>7, <1>8

\* An error code.
LEMMA CodeAdds ==
    ASSUME NEW c \in VpnState, NEW e \in ProtocolErrorCodes, NEW S
    PROVE  LET d == protocolError(c, e)
           IN  /\ Adds(c, d, S) /\ SameRun(c, d)
               /\ d.state = c.state /\ d.pstate = c.pstate
               /\ d.timer = c.timer
               /\ d.reported = c.reported
<1> DEFINE g == ErrorSignal(e, c.attempt)
           d == protocolError(c, e)
<1>1. g \in Signal /\ g.type # "state" /\ g.code = e
  BY DEF VpnState, ErrorSignal, Signal, ErrorCode
<1>2. Append(c.out, g) \in Seq(Signal)
  BY <1>1, AppendProperties DEF VpnState
<1> HIDE DEF g
<1>3. /\ d \in VpnState /\ d.state = c.state /\ d.pstate = c.pstate
      /\ d.out = Append(c.out, g) /\ SameRun(c, d) /\ d.timer = c.timer
      /\ d.reported = c.reported
  BY <1>2 DEF protocolError, Emit, VpnState, SameRun, g
<1> HIDE DEF d
<1>4. Adds(c, d, S)
  BY <1>1, <1>3, SignalAdds DEF SameRun
<1> QED BY <1>3, <1>4 DEF d

\* WireguardProtocol::stop says "Disconnected" once.
LEMMA WireguardStopAdds ==
    ASSUME Plain, NEW c \in VpnState,
           NEW S, "Disconnected" \in S
    PROVE  LET d == stopWireguard(c)
           IN  /\ Adds(c, d, S) /\ d.proc = "none"
               /\ d.probe = FALSE /\ d.pstate = "Disconnected"
               /\ c.pstate = "Disconnected" =>
                     d.out = c.out /\ d.timer = c.timer /\ d.state = c.state
               /\ c.pstate # "Disconnected" =>
                     /\ d.timer = FALSE
                     /\ d.state = IF c.state = "Reconnecting"
                                  THEN c.state ELSE "Disconnected"
<1> DEFINE e == [cancelTrafficProbe(c) EXCEPT
                     !.late = @ \/ c.proc = "running",
                     !.proc = "none"]
           d == protocolState(e, "Disconnected")
<1>1. /\ e \in VpnState /\ e.state = c.state /\ e.out = c.out
      /\ e.kind = c.kind /\ e.attempt = c.attempt /\ e.probe = FALSE
      /\ e.proc = "none" /\ e.pstate = c.pstate
      /\ e.timer = c.timer
  BY DEF Plain, VpnState, cancelTrafficProbe
<1>2. "Disconnected" \in ConnectionState
  BY DEF ConnectionState
<1> HIDE DEF e
<1>3. /\ Adds(e, d, S) /\ SameRun(e, d)
      /\ e.pstate = "Disconnected" => d = e
      /\ e.pstate # "Disconnected" =>
           /\ d.pstate = "Disconnected"
           /\ d.timer = TimerAfter("Disconnected", e.timer)
           /\ d.state = IF e.state = "Reconnecting"
                        THEN e.state ELSE "Disconnected"
  BY <1>1, <1>2, ProtocolAdds
<1>4. stopWireguard(c) = d
  BY DEF stopWireguard, d, e
<1> HIDE DEF d
<1>5. Adds(c, e, S)
  BY <1>1, SilenceAdds
<1>6. Adds(c, d, S)
  BY <1>3, <1>5, AddsTransitive
<1>7. TimerAfter("Disconnected", e.timer) = FALSE
  BY DEF TimerAfter
<1> QED BY <1>1, <1>3, <1>4, <1>6, <1>7 DEF SameRun

\* OpenVpnProtocol::cleanupResources says nothing.
LEMMA CleanAdds ==
    ASSUME NEW c \in VpnState, NEW S
    PROVE  LET d == cleanupResources(c)
           IN  /\ Adds(c, d, S) /\ d.out = c.out
               /\ d.state = c.state /\ d.pstate = c.pstate
               /\ d.timer = c.timer
               /\ d.proc = IF c.proc = "running" THEN "exiting" ELSE c.proc
<1> DEFINE d == cleanupResources(c)
<1>1. /\ d \in VpnState /\ d.kind = c.kind /\ d.attempt = c.attempt
      /\ d.out = c.out
      /\ d.state = c.state /\ d.pstate = c.pstate
      /\ d.timer = c.timer
      /\ d.proc = IF c.proc = "running" THEN "exiting" ELSE c.proc
  BY DEF VpnState, cleanupResources
<1> HIDE DEF d
<1>2. Adds(c, d, S)
  BY <1>1, SilenceAdds
<1> QED BY <1>1, <1>2 DEF d

\* OpenVpnProtocol::stop: an active protocol says "Disconnecting" and
\* "Disconnected", one that ended says nothing.
LEMMA OpenVpnStopAdds ==
    ASSUME NEW c \in VpnState, NEW S,
           c.pstate \notin {"Unknown", "Disconnected", "Error"} =>
              "Disconnected" \in S /\ "Disconnecting" \in S
    PROVE  LET d == stopOpenVpn(c)
           IN  /\ Adds(c, d, S)
               /\ d.proc = IF c.proc = "running" THEN "exiting" ELSE c.proc
               /\ c.pstate \in {"Unknown", "Disconnected", "Error"} =>
                     /\ d.out = c.out /\ d.pstate = c.pstate
                     /\ d.timer = c.timer /\ d.state = c.state
               /\ c.pstate \notin {"Unknown", "Disconnected", "Error"} =>
                     d.pstate = "Disconnected" /\ d.timer = FALSE
<1> DEFINE f == protocolState(c, "Disconnecting")
           d == IF WasActive(c) THEN f ELSE c
           e == cleanupResources(d)
           g == protocolState(e, "Disconnected")
<1>1. /\ "Disconnecting" \in ConnectionState
      /\ "Disconnected" \in ConnectionState
      /\ c.pstate \in ConnectionState
  BY DEF ConnectionState, VpnState
<1>2. CASE c.pstate \in {"Unknown", "Disconnected", "Error"}
  <2>1. ~WasActive(c)
    BY <1>2 DEF WasActive
  <2>2. d = c
    BY <2>1
  <2>3. /\ Adds(c, e, S) /\ e.out = c.out
        /\ e.state = c.state /\ e.pstate = c.pstate
        /\ e.timer = c.timer
        /\ e.proc = IF c.proc = "running" THEN "exiting" ELSE c.proc
    BY <2>2, CleanAdds
  <2>4. stopOpenVpn(c) = e
    BY <1>2, <2>1, <2>3 DEF stopOpenVpn, e, d, f
  <2> HIDE DEF e
  <2> QED BY <1>2, <2>3, <2>4
<1>3. CASE c.pstate \notin {"Unknown", "Disconnected", "Error"}
  <2>1. /\ Adds(c, f, S)
        /\ f.proc = c.proc
        /\ c.pstate # "Disconnecting" => f.pstate = "Disconnecting"
    BY <1>1, <1>3, ProtocolAdds DEF SameRun
  <2>2. Adds(c, c, S)
    BY SilenceAdds
  <2> HIDE DEF f
  <2>3. WasActive(c) \/ c.pstate = "Disconnecting"
    BY <1>1, <1>3 DEF WasActive, ConnectionState
  <2>4. /\ Adds(c, d, S)
        /\ d.proc = c.proc /\ d.pstate = "Disconnecting"
    BY <2>1, <2>2, <2>3 DEF WasActive
  <2> HIDE DEF d
  <2>5. /\ Adds(d, e, S)
        /\ e.proc = IF c.proc = "running" THEN "exiting" ELSE c.proc
        /\ e.pstate = "Disconnecting"
    BY <2>4, CleanAdds DEF Adds
  <2>6. e \in VpnState
    BY <2>5 DEF Adds
  <2>7. stopOpenVpn(c) = g
    BY <2>3, <2>5 DEF stopOpenVpn, g, e, d, f
  <2> HIDE DEF e
  <2>8. /\ Adds(e, g, S) /\ SameRun(e, g)
        /\ g.pstate = "Disconnected"
        /\ g.timer = TimerAfter("Disconnected", e.timer)
    BY <1>1, <1>3, <2>5, <2>6, ProtocolAdds
  <2> HIDE DEF g
  <2>9. Adds(c, g, S)
    <3>1. d \in VpnState
      BY <2>4 DEF Adds
    <3>2. Adds(c, e, S)
      BY <2>4, <2>5, AddsTransitive
    <3> QED BY <2>8, <3>2, AddsTransitive
  <2>10. TimerAfter("Disconnected", e.timer) = FALSE
    BY DEF TimerAfter
  <2> QED BY <1>3, <2>5, <2>7, <2>8, <2>9, <2>10 DEF SameRun
<1> QED BY <1>2, <1>3

-----------------------------------------------------------------------------
(* A protocol that works, leaves or has ended.                               *)

Live(c) == c.kind # "none" /\ c.proc = "running"

\* Nothing but the end of its process can still be heard of the protocol.
Ended(c) == ~Live(c) /\ (c.kind # "none" => c.pstate # "Disconnecting")

\* Between slots a protocol's state, process and timer go together.
Shaped(c) ==
    /\ c.kind # "Xray"
    /\ c.kind = "none" => c.proc = "none" /\ c.timer = FALSE
    /\ c.kind = "WireGuard" =>
         \/ c.proc = "running" /\ c.pstate \in {"Connecting", "Connected"}
         \/ /\ c.proc = "none" /\ c.pstate = "Disconnected"
            /\ c.timer = FALSE /\ c.probe = FALSE
    /\ c.kind = "OpenVpn" =>
         \/ c.proc = "running" /\ c.pstate \in Working
         \/ c.proc = "exiting" /\ c.pstate = "Disconnecting"
         \/ /\ c.proc \in {"none", "exiting"}
            /\ c.pstate \in {"Unknown", "Disconnected", "Error"}
            /\ c.timer = FALSE

\* VpnConnection and a protocol at work agree on the state.
InPhase(c) == Live(c) => c.state = c.pstate

\* A protocol that can be started.
Startable(c) ==
    /\ c \in VpnState
    /\ c.kind \in {"WireGuard", "OpenVpn"}
    /\ c.proc \in {"none", "exiting"} /\ c.timer = FALSE
    /\ c.pstate \in {"Unknown", "Disconnected", "Error"}
    /\ c.kind = "WireGuard" => c.probe = FALSE

\* A start says "Connecting" and works, or goes on to say that it failed.
Outcome(c, d, e) ==
    \E m : /\ Adds(c, m, {"Connecting"}) /\ Adds(m, d, Over) /\ Shaped(d)
           /\ \/ /\ e = NoError /\ d = m /\ Live(d)
                 /\ d.state = "Connecting" /\ d.pstate = "Connecting"
              \/ e \in ProtocolErrorCodes /\ Ended(d)

\* WireguardProtocol::failConnection says "Error" and "Disconnected", once.
LEMMA FailAdds ==
    ASSUME Plain, NEW c \in VpnState,
           NEW e \in ProtocolErrorCodes, NEW S, Over \subseteq S
    PROVE  LET d == failConnection(c, e)
           IN  /\ Adds(c, d, S)
               /\ c.reported => d = c
               /\ ~c.reported =>
                     /\ d.proc = "none" /\ d.pstate = "Disconnected"
                     /\ d.timer = FALSE /\ d.probe = FALSE
<1> DEFINE d == cancelTrafficProbe([c EXCEPT !.reported = TRUE])
           f == setLastError(d, e)
           g == protocolError(f, e)
           h == stopWireguard(g)
<1>1. /\ d \in VpnState /\ d.state = c.state /\ d.out = c.out
      /\ d.kind = c.kind /\ d.attempt = c.attempt
  BY DEF VpnState, cancelTrafficProbe
<1>2. "Error" \in S /\ "Disconnected" \in S
  BY DEF Over
<1> HIDE DEF d
<1>3. Adds(c, d, S)
  BY <1>1, SilenceAdds
<1>4. Adds(d, f, S) /\ f.pstate = "Error"
  BY <1>1, <1>2, ErrorAdds DEF SameRun
<1>5. f \in VpnState
  BY <1>4 DEF Adds
<1> HIDE DEF f
<1>6. Adds(f, g, S) /\ g.pstate = "Error"
  BY <1>4, <1>5, CodeAdds DEF SameRun
<1>7. g \in VpnState
  BY <1>6 DEF Adds
<1> HIDE DEF g
<1>8. /\ Adds(g, h, S) /\ h.proc = "none" /\ h.pstate = "Disconnected"
      /\ h.timer = FALSE /\ h.probe = FALSE
  BY <1>2, <1>6, <1>7, WireguardStopAdds
<1> HIDE DEF h
<1>9. Adds(c, h, S)
  <2>1. Adds(c, f, S)
    BY <1>3, <1>4, AddsTransitive
  <2>2. Adds(c, g, S)
    BY <1>6, <2>1, AddsTransitive
  <2> QED BY <1>8, <2>2, AddsTransitive
<1>10. failConnection(c, e) = IF c.reported THEN c ELSE h
  BY DEF failConnection, h, g, f, d
<1>11. Adds(c, c, S)
  BY SilenceAdds
<1> QED BY <1>8, <1>9, <1>10, <1>11

\* "Connecting" is said by a protocol that was not at it.
LEMMA ConnectingAdds ==
    ASSUME NEW c \in VpnState,
           c.pstate \in {"Unknown", "Disconnected", "Error"}
    PROVE  LET d == protocolState(c, "Connecting")
               e == [d EXCEPT !.proc = "running"]
           IN  /\ Adds(c, d, {"Connecting"}) /\ SameRun(c, d)
               /\ d.pstate = "Connecting" /\ d.state = "Connecting"
               /\ d.reported = c.reported
               /\ Adds(c, e, {"Connecting"}) /\ e.proc = "running"
               /\ e.pstate = "Connecting" /\ e.state = "Connecting"
<1> DEFINE d == protocolState(c, "Connecting")
           e == [d EXCEPT !.proc = "running"]
<1>1. "Connecting" \in ConnectionState
  BY DEF ConnectionState
<1>2. /\ Adds(c, d, {"Connecting"}) /\ SameRun(c, d)
      /\ d.pstate = "Connecting" /\ d.state = "Connecting"
      /\ d.reported = c.reported
  BY <1>1, ProtocolAdds
<1>3. d \in VpnState
  BY <1>2 DEF Adds
<1> HIDE DEF d
<1>4. /\ e \in VpnState /\ e.kind = d.kind /\ e.attempt = d.attempt
      /\ e.out = d.out /\ e.proc = "running"
      /\ e.pstate = "Connecting" /\ e.state = "Connecting"
  BY <1>2, <1>3 DEF VpnState, SameRun
<1> HIDE DEF e
<1>5. Adds(c, e, {"Connecting"})
  <2>1. Adds(d, e, {"Connecting"})
    BY <1>3, <1>4, SilenceAdds
  <2> QED BY <1>2, <2>1, AddsTransitive
<1> QED BY <1>2, <1>4, <1>5 DEF d, e

\* WireguardProtocol::start
LEMMA WireguardStartAdds ==
    ASSUME Plain, NEW c, Startable(c), c.kind = "WireGuard",
           NEW r \in startWireguard(c)
    PROVE  Outcome(c, r.after, r.error)
<1> DEFINE b == [c EXCEPT !.reported = FALSE]
           d == protocolState(b, "Connecting")
           e == [d EXCEPT !.proc = "running", !.awaited = TRUE]
           f == failConnection(d, AddressPoolError)
<1>1. /\ b \in VpnState /\ b.state = c.state /\ b.out = c.out
      /\ SameRun(c, b) /\ b.pstate = c.pstate /\ b.reported = FALSE
  BY DEF Startable, VpnState, SameRun
<1> HIDE DEF b
<1>2. Adds(c, b, {"Connecting"})
  BY <1>1, SilenceAdds DEF Startable, SameRun
<1>3. /\ Adds(b, d, {"Connecting"}) /\ SameRun(b, d) /\ d.reported = FALSE
      /\ d.pstate = "Connecting" /\ d.state = "Connecting"
  BY <1>1, ConnectingAdds DEF Startable
<1>4. AddressPoolError \in ProtocolErrorCodes
  BY DEF ProtocolErrorCodes
<1>5. d \in VpnState
  BY <1>3 DEF Adds
<1> HIDE DEF d
<1>10. /\ e \in VpnState /\ e.kind = d.kind /\ e.attempt = d.attempt
       /\ e.out = d.out /\ e.proc = "running"
       /\ e.pstate = "Connecting" /\ e.state = "Connecting"
  BY <1>3, <1>5 DEF VpnState
<1> HIDE DEF e
<1>6. /\ Adds(d, f, Over) /\ f.proc = "none" /\ f.pstate = "Disconnected"
      /\ f.timer = FALSE /\ f.probe = FALSE
  BY <1>1, <1>3, <1>4, <1>5, FailAdds DEF Startable, SameRun
<1> HIDE DEF f
<1>7. r \in {[after |-> e, error |-> NoError],
             [after |-> f, error |-> AddressPoolError]}
  BY DEF startWireguard, f, e, d, b
<1>8. Outcome(c, e, NoError)
  <2>1. Adds(d, e, {"Connecting"}) /\ Adds(e, e, Over)
    BY <1>5, <1>10, SilenceAdds
  <2>2. Adds(c, e, {"Connecting"})
    BY <1>2, <1>3, <2>1, AddsTransitive DEF Startable, Adds
  <2>3. e.kind = "WireGuard"
    BY <2>2 DEF Adds
  <2>4. Shaped(e) /\ Live(e)
    BY <1>10, <2>3 DEF Shaped, Live
  <2> QED BY <1>10, <2>1, <2>2, <2>4 DEF Outcome
<1>9. Outcome(c, f, AddressPoolError)
  <2>1. Adds(c, d, {"Connecting"})
    BY <1>2, <1>3, AddsTransitive DEF Startable
  <2>2. f.kind = "WireGuard"
    BY <1>6, <2>1 DEF Adds
  <2>3. Shaped(f) /\ Ended(f)
    BY <1>4, <1>6, <2>2 DEF Shaped, Ended, Live
  <2> QED BY <1>4, <1>6, <2>1, <2>3 DEF Outcome
<1> QED BY <1>7, <1>8, <1>9

\* OpenVpnProtocol::start
LEMMA OpenVpnStartAdds ==
    ASSUME Plain, NEW c, Startable(c), c.kind = "OpenVpn",
           NEW r \in startOpenVpn(c)
    PROVE  Outcome(c, r.after, r.error)
<1> DEFINE d == cleanupResources(c)
           missing == setLastError(d, OpenVpnConfigMissing)
           alone == [d EXCEPT !.proc = "none"]
           begun == protocolState(alone, "Connecting")
           refused == setLastError(begun, AmneziaServiceConnectionFailed)
           connecting == protocolState(d, "Connecting")
           running == [connecting EXCEPT !.proc = "running"]
<1>1. c \in VpnState
  BY DEF Startable
<1>2. /\ Adds(c, d, {"Connecting"}) /\ Adds(c, d, Over)
      /\ d.pstate = c.pstate /\ d.timer = FALSE
      /\ d.proc = c.proc
  BY <1>1, CleanAdds DEF Startable
<1>3. d \in VpnState /\ d.kind = "OpenVpn"
  BY <1>2 DEF Adds
<1> HIDE DEF d
<1>4. /\ OpenVpnConfigMissing \in ProtocolErrorCodes
      /\ AmneziaServiceConnectionFailed \in ProtocolErrorCodes
      /\ "Error" \in Over
  BY DEF ProtocolErrorCodes, Over
<1>5. ASSUME NEW m, Adds(c, m, {"Connecting"}), NEW f, Adds(m, f, Over),
             f.timer = FALSE, f.proc \in {"none", "exiting"},
             f.pstate \in {"Unknown", "Disconnected", "Error"},
             NEW e \in ProtocolErrorCodes
      PROVE  Outcome(c, f, e)
  <2>1. f.kind = "OpenVpn"
    BY <1>5 DEF Adds
  <2>2. Shaped(f) /\ Ended(f)
    BY <1>5, <2>1 DEF Shaped, Ended, Live
  <2> QED BY <1>5, <2>2 DEF Outcome
<1>6. Outcome(c, d, AmneziaServiceConnectionFailed)
  <2>1. Adds(d, d, Over)
    BY <1>3, SilenceAdds
  <2> QED BY <1>2, <1>4, <1>5, <2>1 DEF Startable
<1>7. Outcome(c, missing, OpenVpnConfigMissing)
  <2>1. /\ Adds(d, missing, Over) /\ SameRun(d, missing)
        /\ missing.pstate = "Error" /\ missing.timer = FALSE
    BY <1>2, <1>3, <1>4, ErrorAdds
  <2> HIDE DEF missing
  <2> QED BY <1>2, <1>4, <1>5, <2>1 DEF Startable, SameRun
<1>8. Outcome(c, refused, AmneziaServiceConnectionFailed)
  <2>1. /\ alone \in VpnState /\ alone.kind = d.kind
        /\ alone.attempt = d.attempt /\ alone.out = d.out /\ alone.proc = "none"
        /\ alone.pstate = c.pstate
    BY <1>2, <1>3 DEF VpnState
  <2> HIDE DEF alone
  <2>2. /\ Adds(alone, begun, {"Connecting"}) /\ SameRun(alone, begun)
        /\ begun.pstate = "Connecting"
    BY <2>1, ConnectingAdds DEF Startable
  <2>3. begun \in VpnState
    BY <2>2 DEF Adds
  <2> HIDE DEF begun
  <2>4. /\ Adds(begun, refused, Over) /\ SameRun(begun, refused)
        /\ refused.pstate = "Error" /\ refused.timer = FALSE
    BY <1>4, <2>2, <2>3, ErrorAdds
  <2>5. Adds(c, begun, {"Connecting"})
    <3>1. Adds(d, alone, {"Connecting"})
      BY <1>3, <2>1, SilenceAdds
    <3>2. Adds(c, alone, {"Connecting"})
      BY <1>1, <1>2, <3>1, AddsTransitive
    <3> QED BY <1>1, <2>2, <3>2, AddsTransitive
  <2> HIDE DEF refused
  <2> QED BY <1>4, <1>5, <2>1, <2>2, <2>4, <2>5 DEF SameRun
<1>9. Outcome(c, running, NoError)
  <2>1. /\ Adds(d, running, {"Connecting"}) /\ running.proc = "running"
        /\ running.pstate = "Connecting" /\ running.state = "Connecting"
    BY <1>2, <1>3, ConnectingAdds DEF Startable
  <2> HIDE DEF running
  <2>2. Adds(c, running, {"Connecting"}) /\ Adds(running, running, Over)
    BY <1>1, <1>2, <2>1, AddsTransitive, SilenceAdds DEF Adds
  <2>3. running.kind = "OpenVpn"
    BY <2>2 DEF Adds
  <2>4. Shaped(running) /\ Live(running)
    BY <1>2, <2>1, <2>3 DEF Shaped, Live, Startable, Working
  <2> QED BY <2>1, <2>2, <2>4 DEF Outcome
<1> HIDE DEF missing, refused, running
<1>10. r \in {[after |-> missing, error |-> OpenVpnConfigMissing],
             [after |-> d, error |-> AmneziaServiceConnectionFailed],
             [after |-> refused, error |-> AmneziaServiceConnectionFailed],
             [after |-> running, error |-> NoError]}
  BY DEF startOpenVpn, missing, refused, running, connecting, begun, alone, d
<1> QED BY <1>6, <1>7, <1>8, <1>9, <1>10

\* What connectToVpn and reconnectToVpn make of a start.
LEMMA StartedAdds ==
    ASSUME Plain, NEW c, Startable(c), NEW r \in Start(c)
    PROVE  \E e : Outcome(c, Started(r), e)
<1>1. Outcome(c, r.after, r.error)
  <2>1. CASE c.kind = "WireGuard"
    <3>1. r \in startWireguard(c)
      BY <2>1 DEF Start
    <3> QED BY <2>1, <3>1, WireguardStartAdds
  <2>2. CASE c.kind = "OpenVpn"
    <3>1. r \in startOpenVpn(c)
      BY <2>2 DEF Start
    <3> QED BY <2>2, <3>1, OpenVpnStartAdds
  <2> QED BY <2>1, <2>2 DEF Startable
<1>2. CASE r.error = NoError
  BY <1>1, <1>2 DEF Started
<1>3. CASE r.error # NoError
  <2> DEFINE d == r.after
             e == setConnectionState(d, "Error", d.attempt)
             f == protocolError(e, r.error)
  <2>1. PICK m : /\ Adds(c, m, {"Connecting"}) /\ Adds(m, d, Over)
                 /\ Shaped(d) /\ Ended(d)
                 /\ r.error \in ProtocolErrorCodes
    BY <1>1, <1>3 DEF Outcome
  <2>2. d \in VpnState /\ m \in VpnState
    BY <2>1 DEF Adds
  <2>3. "Error" \in ConnectionState /\ "Error" \in Over
    BY DEF ConnectionState, Over
  <2> HIDE DEF d
  <2>4. /\ Adds(d, e, Over) /\ SameRun(d, e) /\ e.pstate = d.pstate
        /\ e.timer = d.timer
    BY <2>2, <2>3, StateAdds
  <2>5. e \in VpnState
    BY <2>4 DEF Adds
  <2> HIDE DEF e
  <2>6. /\ Adds(e, f, Over) /\ SameRun(e, f) /\ f.pstate = e.pstate
        /\ f.timer = e.timer
    BY <2>1, <2>5, CodeAdds
  <2>7. Started(r) = f
    BY <1>3, <2>4 DEF Started, protocolError, f, e, d, SameRun
  <2> HIDE DEF f
  <2>8. Adds(m, f, Over)
    <3>1. Adds(m, e, Over)
      BY <2>1, <2>2, <2>4, AddsTransitive
    <3> QED BY <2>2, <2>6, <3>1, AddsTransitive
  <2>9. Shaped(f) /\ Ended(f)
    BY <2>1, <2>4, <2>6 DEF Shaped, Ended, Live, SameRun
  <2> QED BY <2>1, <2>7, <2>8, <2>9 DEF Outcome
<1> QED BY <1>2, <1>3

-----------------------------------------------------------------------------
(* The slots.                                                                *)

\* A step signals states in S of attempt a, and codes of the protocols.
Spoken(S, a) ==
    \E p \in Seq(Event) :
        inbox' = inbox \o p /\ OnlyFrom(p, 1, S, a)

\* What the slot leaves behind.
LEMMA DoneSpoken ==
    ASSUME VpnInv, vpn.out = <<>>, NEW c, NEW S, Adds(vpn, c, S), Done(c)
    PROVE  /\ Spoken(S, vpn.attempt) /\ vpn'.attempt = vpn.attempt
           /\ vpn'.proc = c.proc
           /\ Shaped(c) => Shaped(vpn')
           /\ Live(vpn') <=> Live(c)
           /\ Ended(vpn') <=> Ended(c)
           /\ InPhase(vpn') <=> InPhase(c)
<1>1. c \in VpnState /\ c.attempt = vpn.attempt
  BY DEF Adds
<1>2. /\ vpn'.kind = c.kind /\ vpn'.attempt = c.attempt
      /\ vpn'.state = c.state /\ vpn'.pstate = c.pstate
      /\ vpn'.proc = c.proc /\ vpn'.probe = c.probe
      /\ vpn'.timer = c.timer
  BY <1>1 DEF Done, VpnState
<1>3. c.out \in Seq(Event) /\ inbox' = inbox \o c.out
  <2>1. c.out \in Seq(Signal)
    BY <1>1 DEF VpnState
  <2> QED BY <2>1, SeqMonotonic DEF Event, Done
<1>4. Len(vpn.out) = 0
  OBVIOUS
<1>5. OnlyFrom(c.out, 1, S, vpn.attempt)
  BY <1>4 DEF Adds
<1>6. Spoken(S, vpn.attempt)
  BY <1>3, <1>5 DEF Spoken
<1> QED BY <1>1, <1>2, <1>6 DEF Shaped, Live, Ended, InPhase

\* Stopping a protocol; one that ended says nothing more.
LEMMA StopAdds ==
    ASSUME Plain, NEW c \in VpnState, c.kind # "Xray"
    PROVE  LET d == Stop(c)
           IN  /\ Adds(c, d, {"Disconnecting", "Disconnected"})
               /\ c.kind = "WireGuard" =>
                     /\ d.proc = "none" /\ d.probe = FALSE
                     /\ d.pstate = "Disconnected"
                     /\ c.pstate # "Disconnected" => d.timer = FALSE
                     /\ c.pstate = "Disconnected" => d.out = c.out
               /\ c.kind = "OpenVpn" =>
                     /\ d.proc \in {"none", "exiting"}
                     /\ d.pstate \in {"Unknown", "Disconnected", "Error"}
                     /\ c.pstate \notin {"Unknown", "Disconnected", "Error"}
                           => d.timer = FALSE
                     /\ c.pstate \in {"Unknown", "Disconnected", "Error"}
                           => d.out = c.out /\ d.timer = c.timer
               /\ c.kind = "none" => d = c
<1> DEFINE S == {"Disconnecting", "Disconnected"}
<1>1. c.kind \in {"WireGuard", "OpenVpn", "none"}
      /\ c.proc \in {"none", "running", "exiting"}
  BY DEF VpnState, ProtocolKind
<1>2. CASE c.kind = "WireGuard"
  <2>1. Stop(c) = stopWireguard(c)
    BY <1>2 DEF Stop
  <2> QED BY <1>2, <2>1, WireguardStopAdds
<1>3. CASE c.kind = "OpenVpn"
  <2> DEFINE d == stopOpenVpn(c)
  <2>1. Stop(c) = d
    BY <1>3 DEF Stop
  <2>2. "Disconnected" \in S /\ "Disconnecting" \in S
    OBVIOUS
  <2> HIDE DEF S
  <2>3. /\ Adds(c, d, S)
        /\ d.proc = IF c.proc = "running" THEN "exiting" ELSE c.proc
        /\ c.pstate \in {"Unknown", "Disconnected", "Error"} =>
              d.out = c.out /\ d.pstate = c.pstate /\ d.timer = c.timer
        /\ c.pstate \notin {"Unknown", "Disconnected", "Error"} =>
              d.pstate = "Disconnected" /\ d.timer = FALSE
    BY <2>2, OpenVpnStopAdds
  <2> HIDE DEF d
  <2> QED BY <1>1, <1>3, <2>1, <2>3 DEF S
<1>4. CASE c.kind = "none"
  <2>1. Stop(c) = c
    BY <1>4 DEF Stop
  <2>2. Adds(c, c, S)
    BY SilenceAdds
  <2> QED BY <1>4, <2>1, <2>2
<1> QED BY <1>1, <1>2, <1>3, <1>4

\* "Connecting" for the new attempt comes first; what start has to say
\* follows, "Connecting" before any failure.
Fanfare(p, a) ==
    /\ Len(p) >= 1 /\ p[1] = StateSignal("Connecting", a)
    /\ \E n \in 1..Len(p) :
          /\ \A i \in 1..n : p[i].type = "state" => p[i].state = "Connecting"
          /\ OnlyFrom(p, n + 1, Over, a)
    /\ OnlyFrom(p, 1, {"Connecting"} \cup Over, a)

\* VpnConnection::connectToVpn. A protocol that ended before is silent while
\* it is stopped.
LEMMA ConnectSays ==
    ASSUME Plain, VpnInv, vpn.out = <<>>, Shaped(vpn), NEW a \in Attempt,
           connectToVpn(a)
    PROVE  /\ Shaped(vpn') /\ InPhase(vpn') /\ vpn'.attempt = a
           /\ \E p \in Seq(Event) :
                 /\ inbox' = inbox \o p
                 /\ Ended(vpn) =>
                       /\ Fanfare(p, a)
                       /\ \/ Live(vpn') /\ OnlyFrom(p, 1, {"Connecting"}, a)
                          \/ Ended(vpn')
<1>0. PICK garbage \in Uninitialised,
           late \in {FALSE, Stop(setConnectionState(vpn, "Connecting", a)).late} :
         LET c == factory(Stop(setConnectionState(vpn, "Connecting", a)), a,
                          garbage, late)
         IN  \/ c.kind = "none" /\ Done(setConnectionState(c, "Error", a))
             \/ c.kind # "none" /\ \E r \in Start(c) : Done(Started(r))
  BY DEF connectToVpn
<1> DEFINE b == setConnectionState(vpn, "Connecting", a)
           d == Stop(b)
           c == factory(d, a, garbage, late)
           e == setConnectionState(c, "Error", c.attempt)
           g == StateSignal("Connecting", a)
<1>1. /\ vpn \in VpnState /\ VpnOK(vpn)
      /\ vpn.kind # "Xray"
  BY DEF VpnInv, VpnOK, Shaped
<1>2. "Connecting" \in ConnectionState /\ "Error" \in ConnectionState
  BY DEF ConnectionState
<1>3. VpnOK(b) /\ b \in VpnState /\ SameRun(vpn, b) /\ b.pstate = vpn.pstate
  <2>1. VpnOK(b)
    BY <1>1, <1>2, StateSet
  <2>2. b \in VpnState /\ SameRun(vpn, b) /\ b.pstate = vpn.pstate
    BY <1>1, <1>2, StateSpoken
  <2> QED BY <2>1, <2>2
<1>4. b.out = <<g>>
  <2> DEFINE x == onConnectionStateChanged(vpn, "Connecting")
  <2>1. x = vpn
    BY DEF onConnectionStateChanged
  <2>2. b = Emit([vpn EXCEPT !.state = "Connecting"], g)
    BY <2>1 DEF setConnectionState, b, g
  <2>3. b.out = Append(vpn.out, g)
    BY <1>1, <2>2 DEF Emit, VpnState
  <2> QED BY <2>3
<1>5. g \in Signal /\ g.type = "state" /\ g.state = "Connecting" /\ g.attempt = a
  BY <1>2 DEF StateSignal, Signal
<1> HIDE DEF b
<1>6. VpnOK(d) /\ NoDns(d) /\ d \in VpnState
  <2>1. VpnOK(d) /\ NoDns(d)
    BY <1>3, Stopped
  <2>2. Adds(b, d, {"Disconnecting", "Disconnected"})
    BY <1>1, <1>3, StopAdds DEF SameRun
  <2> QED BY <2>1, <2>2 DEF Adds
<1>8. Ended(vpn) => d.out = <<g>>
  <2>1. SUFFICES ASSUME Ended(vpn) PROVE d.out = b.out
    BY <1>4
  <2>2. /\ vpn.kind = "WireGuard" => vpn.pstate = "Disconnected"
        /\ vpn.kind = "OpenVpn" =>
              vpn.pstate \in {"Unknown", "Disconnected", "Error"}
    BY <2>1 DEF Shaped, Ended, Live
  <2>3. vpn.kind \in {"WireGuard", "OpenVpn", "none"}
    BY <1>1 DEF VpnState, ProtocolKind
  <2> QED BY <1>1, <1>3, <2>2, <2>3, StopAdds DEF SameRun
<1>8a. late \in {FALSE, d.late}
  BY DEF b
<1> HIDE DEF d
<1>8b. late \in BOOLEAN
  BY <1>6, <1>8a DEF VpnState
<1>9. c \in VpnState /\ c.kind = KindOf[a.server] /\ c.kind # "Xray"
  <2>1. VpnOK(c) /\ c.kind = KindOf[a.server]
    BY <1>6, <1>8b, FactoryOK
  <2> QED BY <2>1 DEF VpnOK, Plain, Attempt
<1>10. /\ c.out = d.out /\ c.attempt = a /\ c.probe = FALSE
       /\ c.timer = FALSE /\ c.proc = "none"
       /\ c.pstate = "Unknown"
  BY <1>6 DEF VpnState, factory
<1> HIDE DEF c
<1>11. \E f, x : Outcome(c, f, x) /\ Done(f)
  <2>1. CASE c.kind = "none"
    <3>1. Done(e)
      BY <1>0, <1>10, <2>1 DEF e, c, d, b
    <3>2. /\ Adds(c, e, Over) /\ SameRun(c, e) /\ e.timer = c.timer
      BY <1>2, <1>9, StateAdds DEF Over
    <3> HIDE DEF e
    <3>3. Adds(c, c, {"Connecting"})
      BY <1>9, SilenceAdds
    <3>4. Shaped(e) /\ Ended(e)
      BY <1>10, <2>1, <3>2 DEF Shaped, Ended, Live, SameRun
    <3>5. InternalError \in ProtocolErrorCodes
      BY DEF ProtocolErrorCodes
    <3> QED BY <3>1, <3>2, <3>3, <3>4, <3>5 DEF Outcome
  <2>2. CASE c.kind # "none"
    <3>1. PICK r \in Start(c) : Done(Started(r))
      BY <1>0, <2>2 DEF c, d, b
    <3>2. Startable(c)
      BY <1>9, <1>10, <2>2 DEF Startable, VpnState, ProtocolKind
    <3> QED BY <3>1, <3>2, StartedAdds
  <2> QED BY <2>1, <2>2
<1>12. PICK f, x : Outcome(c, f, x) /\ Done(f)
  BY <1>11
<1>13. PICK m : /\ Adds(c, m, {"Connecting"}) /\ Adds(m, f, Over) /\ Shaped(f)
                /\ \/ /\ f = m /\ Live(f)
                      /\ f.state = "Connecting" /\ f.pstate = "Connecting"
                   \/ Ended(f)
  BY <1>12 DEF Outcome
<1>14. /\ m \in VpnState /\ f \in VpnState /\ m.attempt = a /\ f.attempt = a
       /\ Grows(c.out, m.out) /\ Grows(m.out, f.out)
       /\ OnlyFrom(m.out, Len(c.out) + 1, {"Connecting"}, a)
       /\ OnlyFrom(f.out, Len(m.out) + 1, Over, a)
  BY <1>10, <1>13 DEF Adds
<1>15. /\ vpn'.kind = f.kind /\ vpn'.attempt = f.attempt
       /\ vpn'.state = f.state /\ vpn'.pstate = f.pstate
       /\ vpn'.proc = f.proc /\ vpn'.probe = f.probe
       /\ vpn'.timer = f.timer
  BY <1>12, <1>14 DEF Done, VpnState
<1>16. /\ Shaped(vpn') /\ InPhase(vpn') /\ vpn'.attempt = a
       /\ \/ Live(vpn') /\ f = m
          \/ Ended(vpn')
  BY <1>13, <1>14, <1>15 DEF Shaped, InPhase, Live, Ended
<1>17. f.out \in Seq(Event) /\ inbox' = inbox \o f.out
  <2>1. f.out \in Seq(Signal)
    BY <1>14 DEF VpnState
  <2> QED BY <1>12, <2>1, SeqMonotonic DEF Event, Done
<1>18. ASSUME Ended(vpn)
       PROVE  Fanfare(f.out, a) /\ (f = m => OnlyFrom(f.out, 1, {"Connecting"}, a))
  <2>1. c.out = <<g>> /\ Len(c.out) = 1 /\ c.out[1] = g
    <3>1. c.out = <<g>>
      BY <1>8, <1>10, <1>18
    <3> HIDE DEF g
    <3> QED BY <3>1
  <2>2. Len(m.out) \in Nat /\ Len(f.out) \in Nat
    BY <1>14, LenProperties DEF VpnState
  <2>3. /\ Len(m.out) >= 1 /\ m.out[1] = g
        /\ Len(f.out) >= Len(m.out)
        /\ \A i \in 1..Len(m.out) : f.out[i] = m.out[i]
    BY <1>14, <2>1, <2>2 DEF Grows
  <2>4. ASSUME NEW i \in 1..Len(m.out), m.out[i].type = "state"
        PROVE  m.out[i].state = "Connecting" /\ m.out[i].attempt = a
    <3>1. CASE i = 1
      BY <1>5, <2>3, <3>1
    <3>2. CASE i # 1
      <4>1. i \in (Len(c.out) + 1)..Len(m.out)
        BY <2>1, <2>2, <3>2
      <4> QED BY <1>14, <2>4, <4>1 DEF OnlyFrom
    <3> QED BY <3>1, <3>2
  <2>5. OnlyFrom(m.out, 1, {"Connecting"}, a)
    BY <2>4 DEF OnlyFrom
  <2>6. OnlyFrom(f.out, 1, {"Connecting"} \cup Over, a)
    <3>1. ASSUME NEW i \in 1..Len(f.out), f.out[i].type = "state"
          PROVE  f.out[i].state \in {"Connecting"} \cup Over /\ f.out[i].attempt = a
      <4>1. CASE i \in 1..Len(m.out)
        BY <2>3, <2>4, <3>1, <4>1
      <4>2. CASE i \in (Len(m.out) + 1)..Len(f.out)
        BY <1>14, <3>1, <4>2 DEF OnlyFrom
      <4> QED BY <2>2, <4>1, <4>2
    <3> QED BY <3>1 DEF OnlyFrom
  <2>7. /\ Len(m.out) \in 1..Len(f.out)
        /\ \A i \in 1..Len(m.out) :
              f.out[i].type = "state" => f.out[i].state = "Connecting"
    BY <2>2, <2>3, <2>4
  <2>8. Len(f.out) >= 1 /\ f.out[1] = StateSignal("Connecting", a)
    BY <2>2, <2>3 DEF g
  <2> QED BY <1>14, <2>5, <2>6, <2>7, <2>8 DEF Fanfare
<1> QED BY <1>14, <1>16, <1>17, <1>18

\* VpnConnection::setConnectionState on request.
LEMMA SetSays ==
    ASSUME VpnInv, vpn.out = <<>>, Shaped(vpn), NEW s \in ConnectionState,
           Done(setConnectionState(vpn, s, vpn.attempt))
    PROVE  /\ Spoken({s}, vpn.attempt) /\ Shaped(vpn')
           /\ vpn'.attempt = vpn.attempt /\ vpn'.proc = vpn.proc
           /\ Live(vpn') <=> Live(vpn)
           /\ Ended(vpn') <=> Ended(vpn)
<1> DEFINE c == setConnectionState(vpn, s, vpn.attempt)
<1>1. vpn \in VpnState /\ s \in {s} /\ Done(c)
  BY DEF VpnInv, VpnOK
<1>2. /\ Adds(vpn, c, {s}) /\ SameRun(vpn, c) /\ c.pstate = vpn.pstate
      /\ c.timer = vpn.timer
  BY <1>1, StateAdds
<1> HIDE DEF c
<1>3. Shaped(c) /\ (Live(c) <=> Live(vpn)) /\ (Ended(c) <=> Ended(vpn))
      /\ c.proc = vpn.proc
  BY <1>2 DEF Shaped, Live, Ended, SameRun
<1> QED BY <1>1, <1>2, <1>3, DoneSpoken

\* VpnConnection::disconnectFromVpn
LEMMA DisconnectSays ==
    ASSUME Plain, VpnInv, vpn.out = <<>>, Shaped(vpn), disconnectFromVpn
    PROVE  /\ Shaped(vpn') /\ vpn'.attempt = vpn.attempt
           /\ Spoken(ConnectionState, vpn.attempt)
<1> DEFINE S == ConnectionState
<1>1. /\ vpn \in VpnState /\ "Disconnected" \in ConnectionState
      /\ "Disconnecting" \in ConnectionState /\ {"Disconnected"} \subseteq S
  BY DEF VpnInv, VpnOK, ConnectionState
<1>2. ASSUME NEW A, A \subseteq S, Spoken(A, vpn.attempt)
      PROVE  Spoken(S, vpn.attempt)
  BY <1>2 DEF Spoken, OnlyFrom
<1>3. CASE Done(setConnectionState(vpn, "Disconnected", vpn.attempt))
  BY <1>1, <1>2, <1>3, SetSays
<1>4. CASE vpn.kind # "none"
  <2> DEFINE b == setConnectionState(vpn, "Disconnecting", vpn.attempt)
             c == Stop(b)
             d == [c EXCEPT !.kind = "none", !.timer = FALSE, !.proc = "none",
                            !.retry = FALSE, !.siteTimer = FALSE]
  <2>1. Done(d)
    BY <1>4 DEF disconnectFromVpn
  <2>2. /\ Adds(vpn, b, S) /\ SameRun(vpn, b)
    BY <1>1, StateAdds
  <2>3. b \in VpnState /\ b.kind # "Xray"
    BY <2>2 DEF Adds, Shaped, SameRun
  <2> HIDE DEF b
  <2>4. /\ Adds(b, c, {"Disconnecting", "Disconnected"})
    BY <2>3, StopAdds
  <2>5. Adds(b, c, S) /\ c \in VpnState
    BY <1>1, <2>4 DEF Adds, OnlyFrom
  <2> HIDE DEF c
  <2>6. Adds(vpn, c, S)
    BY <1>1, <2>2, <2>5, AddsTransitive
  <2>7. /\ d \in VpnState /\ d.attempt = c.attempt /\ d.out = c.out
        /\ d.kind = "none" /\ d.proc = "none" /\ d.timer = FALSE
    BY <2>5 DEF VpnState, ProtocolKind
  <2> HIDE DEF d
  <2>8. c.out \in Seq(Event) /\ inbox' = inbox \o c.out
    <3>1. c.out \in Seq(Signal)
      BY <2>5 DEF VpnState
    <3> QED BY <2>1, <2>7, <3>1, SeqMonotonic DEF Event, Done
  <2>9. Len(vpn.out) = 0
    OBVIOUS
  <2>10. OnlyFrom(c.out, 1, S, vpn.attempt)
    BY <2>6, <2>9 DEF Adds
  <2>11. Spoken(S, vpn.attempt)
    BY <2>8, <2>10 DEF Spoken
  <2>12. /\ vpn'.kind = "none" /\ vpn'.attempt = vpn.attempt
         /\ vpn'.proc = "none" /\ vpn'.timer = FALSE
    BY <2>1, <2>2, <2>4, <2>6, <2>7 DEF Done, VpnState, Adds
  <2> QED BY <2>11, <2>12 DEF Shaped
<1> QED BY <1>3, <1>4 DEF disconnectFromVpn

-----------------------------------------------------------------------------
(* The events that reach the protocol object.                                *)

\* What an event does to the protocol and what is heard of it: nothing; the
\* protocol works on; it has ended; it leaves; or a working tunnel is made
\* anew.
Report ==
    /\ vpn'.attempt = vpn.attempt /\ Shaped(vpn')
    /\ InPhase(vpn) => InPhase(vpn')
    /\ \/ /\ Spoken({}, vpn.attempt)
          /\ (Live(vpn') <=> Live(vpn)) /\ (Ended(vpn') <=> Ended(vpn))
       \/ Live(vpn) /\ Live(vpn') /\ Spoken(Working, vpn.attempt)
       \/ Ended(vpn') /\ Spoken(Over, vpn.attempt)
       \/ Live(vpn) /\ ~Live(vpn') /\ Spoken({"Disconnecting"}, vpn.attempt)
       \/ /\ Live(vpn) /\ vpn.state = "Connected"
          /\ \/ /\ Live(vpn')
                /\ Spoken(Working \cup {"Disconnecting", "Disconnected"},
                          vpn.attempt)
             \/ Ended(vpn') /\ Spoken(Working \cup Leaves, vpn.attempt)

\* An event that only touches a timer or the probe.
LEMMA SilentSays ==
    ASSUME VpnInv, vpn.out = <<>>, Shaped(vpn), NEW c \in VpnState,
           c.kind = vpn.kind, c.attempt = vpn.attempt, c.out = vpn.out,
           c.state = vpn.state, c.pstate = vpn.pstate, c.proc = vpn.proc,
           Shaped(c), Done(c)
    PROVE  Report
<1>1. vpn \in VpnState
  BY DEF VpnInv, VpnOK
<1>2. Adds(vpn, c, {})
  BY <1>1, SilenceAdds
<1>3. /\ Live(c) <=> Live(vpn)
      /\ Ended(c) <=> Ended(vpn)
      /\ InPhase(c) <=> InPhase(vpn)
  BY DEF Live, Ended, InPhase
<1> QED BY <1>2, <1>3, DoneSpoken DEF Report

\* An event after which the protocol has ended.
LEMMA EndSays ==
    ASSUME VpnInv, vpn.out = <<>>, NEW c, Adds(vpn, c, Over), Shaped(c),
           Ended(c), Done(c)
    PROVE  Report
<1>1. InPhase(c)
  BY DEF Ended, InPhase
<1> QED BY <1>1, DoneSpoken DEF Report

\* An event that a working protocol survives.
LEMMA WorkSays ==
    ASSUME VpnInv, vpn.out = <<>>, Shaped(vpn), Live(vpn), NEW s \in Working,
           NEW c \in VpnState,
           c.kind = vpn.kind, c.attempt = vpn.attempt, c.out = vpn.out,
           c.state = vpn.state, c.pstate = vpn.pstate, c.proc = vpn.proc,
           vpn.kind = "WireGuard" => s # "Reconnecting",
           Done(protocolState(c, s))
    PROVE  Report
<1> DEFINE d == protocolState(c, s)
<1>1. vpn \in VpnState /\ s \in ConnectionState /\ Done(d)
  BY DEF VpnInv, VpnOK, Working, ConnectionState
<1>2. /\ Adds(c, d, Working) /\ SameRun(c, d)
      /\ d = c \/ (d.pstate = s /\ d.state = s)
  <2>1. s \notin {"Disconnected", "Disconnecting"}
    BY DEF Working
  <2> QED BY <1>1, <2>1, ProtocolAdds
<1> HIDE DEF d
<1>3. Adds(vpn, c, Working)
  BY <1>1, SilenceAdds
<1>4. Adds(vpn, d, Working)
  BY <1>1, <1>2, <1>3, AddsTransitive
<1>5. Live(d) /\ (InPhase(vpn) => InPhase(d))
  BY <1>2 DEF Live, InPhase, SameRun
<1>6. Shaped(d)
  BY <1>2 DEF Shaped, SameRun, Live, Working
<1> QED BY <1>1, <1>4, <1>5, <1>6, DoneSpoken DEF Report

\* VpnProtocol::onTimeout
LEMMA TimeoutSays ==
    ASSUME Plain, VpnInv, vpn.out = <<>>, Shaped(vpn), onTimeout
    PROVE  Report
<1> DEFINE b == [vpn EXCEPT !.timer = FALSE]
           d == setLastError(b, VpnTunnelDidNotComeUpError)
           c == protocolError(d, VpnTunnelDidNotComeUpError)
           e == cancelTrafficProbe(c)
           f == Stop(e)
<1>1. vpn \in VpnState /\ vpn.timer = TRUE
  BY DEF VpnInv, VpnOK, VpnState, onTimeout
<1>2. VpnTunnelDidNotComeUpError \in ProtocolErrorCodes /\ "Error" \in Over
  BY DEF ProtocolErrorCodes, Over
<1>3. /\ vpn.kind \in {"WireGuard", "OpenVpn"}
      /\ vpn.pstate \notin {"Unknown", "Disconnected", "Error"}
  BY <1>1 DEF Shaped, VpnState, ProtocolKind, Working
<1>4. /\ b \in VpnState /\ b.state = vpn.state /\ b.out = vpn.out
      /\ b.pstate = vpn.pstate /\ SameRun(vpn, b) /\ b.timer = FALSE
  BY <1>1 DEF VpnState, SameRun
<1> HIDE DEF b
<1>5. Adds(vpn, b, Over)
  BY <1>1, <1>4, SilenceAdds DEF SameRun
<1>6. /\ Adds(b, d, Over) /\ SameRun(b, d) /\ d.pstate = "Error"
      /\ d.timer = FALSE
  BY <1>2, <1>4, ErrorAdds
<1>7. d \in VpnState
  BY <1>6 DEF Adds
<1> HIDE DEF d
<1>8. /\ Adds(d, c, Over) /\ SameRun(d, c) /\ c.pstate = "Error"
      /\ c.timer = FALSE
  BY <1>2, <1>6, <1>7, CodeAdds
<1>9. c \in VpnState
  BY <1>8 DEF Adds
<1> HIDE DEF c
<1>10. /\ e \in VpnState /\ e.kind = vpn.kind /\ e.attempt = c.attempt
       /\ e.kind = c.kind /\ e.out = c.out /\ e.pstate = "Error"
       /\ e.timer = FALSE
       /\ e.proc = vpn.proc
  BY <1>4, <1>6, <1>8, <1>9 DEF cancelTrafficProbe, VpnState, SameRun, Shaped
<1> HIDE DEF e
<1>11. Adds(vpn, e, Over)
  <2>1. Adds(c, e, Over)
    BY <1>9, <1>10, SilenceAdds
  <2>2. Adds(vpn, d, Over)
    BY <1>1, <1>5, <1>6, AddsTransitive
  <2>3. Adds(vpn, c, Over)
    BY <1>1, <1>8, <2>2, AddsTransitive
  <2> QED BY <1>1, <2>1, <2>3, AddsTransitive
<1>12. Done(f)
  BY DEF onTimeout, f, e, c, d, b
<1>13. CASE vpn.kind = "WireGuard"
  <2>1. f = stopWireguard(e)
    BY <1>10, <1>13 DEF Stop
  <2>2. "Disconnected" \in Over
    BY DEF Over
  <2>3. /\ Adds(e, f, Over) /\ f.proc = "none"
        /\ f.probe = FALSE /\ f.pstate = "Disconnected" /\ f.timer = FALSE
    BY <1>10, <2>1, <2>2, WireguardStopAdds
  <2> HIDE DEF f
  <2>4. f.kind = "WireGuard"
    BY <1>10, <1>13, <2>3 DEF Adds
  <2>5. Shaped(f) /\ Ended(f)
    BY <1>2, <2>3, <2>4 DEF Shaped, Ended, Live
  <2>6. Adds(vpn, f, Over)
    BY <1>1, <1>11, <2>3, AddsTransitive
  <2> QED BY <1>12, <2>5, <2>6, EndSays
<1>14. CASE vpn.kind = "OpenVpn"
  <2>1. f = stopOpenVpn(e)
    BY <1>10, <1>14 DEF Stop
  <2>2. /\ Adds(e, f, Over) /\ f.timer = FALSE
        /\ f.pstate = "Error"
        /\ f.proc = IF e.proc = "running" THEN "exiting" ELSE e.proc
    BY <1>10, <2>1, OpenVpnStopAdds
  <2> HIDE DEF f
  <2>3. f.kind = "OpenVpn" /\ f.proc \in {"none", "exiting"}
    BY <1>10, <1>14, <2>2 DEF Adds, VpnState
  <2>4. Shaped(f) /\ Ended(f)
    BY <1>2, <2>2, <2>3 DEF Shaped, Ended, Live
  <2>5. Adds(vpn, f, Over)
    BY <1>1, <1>11, <2>2, AddsTransitive
  <2> QED BY <1>12, <2>4, <2>5, EndSays
<1> QED BY <1>3, <1>13, <1>14

\* The answer to a deactivation finds the protocol stopped, or nobody.
LEMMA LateSays ==
    ASSUME VpnInv, vpn.out = <<>>, Shaped(vpn), lateDisconnected
    PROVE  Report /\ inbox' = inbox /\ vpn'.proc = vpn.proc
<1> DEFINE c == [cancelTrafficProbe(vpn) EXCEPT !.late = FALSE]
<1>1. vpn \in VpnState /\ inbox \in Seq(Event)
  BY DEF VpnInv, VpnOK
<1>2. Done(c) /\ (vpn.kind = "WireGuard" => vpn.pstate = "Disconnected")
  BY DEF lateDisconnected
<1>3. /\ c \in VpnState /\ c.kind = vpn.kind /\ c.attempt = vpn.attempt
      /\ c.out = vpn.out /\ c.state = vpn.state /\ c.pstate = vpn.pstate
      /\ c.proc = vpn.proc /\ c.timer = vpn.timer /\ c.probe = FALSE
  BY <1>1 DEF VpnState, cancelTrafficProbe
<1> HIDE DEF c
<1>4. Shaped(c)
  BY <1>2, <1>3 DEF Shaped
<1>5. inbox' = inbox /\ vpn'.proc = vpn.proc
  BY <1>1, <1>2, <1>3, ConcatEmptySeq DEF Done, VpnState
<1> QED BY <1>2, <1>3, <1>4, <1>5, SilentSays

\* What the daemon and the probe report to a WireGuard protocol.
LEMMA WireguardEventSays ==
    ASSUME Plain, VpnInv, vpn.out = <<>>, Shaped(vpn),
           \/ startTrafficProbe \/ onProbeFinished \/ probeDeadline
           \/ backendFailure \/ daemonDisconnected
    PROVE  Report
<1>1. vpn \in VpnState /\ vpn.kind = "WireGuard"
  BY DEF VpnInv, VpnOK, Shaped, startTrafficProbe, onProbeFinished,
         probeDeadline, backendFailure, daemonDisconnected, Running
<1>2. vpn.proc = "running"
      \/ (vpn.proc = "none" /\ vpn.probe = FALSE)
  BY <1>1 DEF Shaped
<1>3. vpn.proc = "running" /\ vpn.pstate \in {"Connecting", "Connected"}
  <2>1. vpn.proc = "running"
    BY <1>1, <1>2
    DEF startTrafficProbe, onProbeFinished, probeDeadline, backendFailure,
        daemonDisconnected, Running
  <2> QED BY <1>1, <2>1 DEF Shaped
<1>4. /\ VpnTunnelDidNotComeUpError \in ProtocolErrorCodes
      /\ AmneziaServiceConnectionFailed \in ProtocolErrorCodes
      /\ "Disconnected" \in Over /\ "Disconnected" \in ConnectionState
  BY DEF ProtocolErrorCodes, Over, ConnectionState
<1>5. ASSUME NEW e \in ProtocolErrorCodes, Done(failConnection(vpn, e))
      PROVE  Report
  <2> DEFINE d == failConnection(vpn, e)
  <2>1. /\ Adds(vpn, d, Over)
        /\ vpn.reported => d = vpn
        /\ ~vpn.reported =>
              /\ d.proc = "none" /\ d.pstate = "Disconnected"
              /\ d.timer = FALSE /\ d.probe = FALSE
    BY <1>1, FailAdds
  <2>2. Done(d)
    BY <1>5
  <2> HIDE DEF d
  <2>3. CASE vpn.reported
    BY <1>1, <2>1, <2>2, <2>3, SilentSays
  <2>4. CASE ~vpn.reported
    <3>1. d.kind = "WireGuard"
      BY <1>1, <2>1 DEF Adds
    <3>2. Shaped(d) /\ Ended(d)
      BY <2>1, <2>4, <3>1 DEF Shaped, Ended, Live
    <3> QED BY <2>1, <2>2, <3>2, EndSays
  <2> QED BY <2>3, <2>4
<1>6. CASE startTrafficProbe
  <2> DEFINE c == [vpn EXCEPT !.awaited = FALSE, !.probe = TRUE,
                              !.timer = FALSE]
  <2>1. Done(c)
    BY <1>6 DEF startTrafficProbe
  <2>2. /\ c \in VpnState /\ c.kind = vpn.kind /\ c.attempt = vpn.attempt
        /\ c.out = vpn.out /\ c.state = vpn.state /\ c.pstate = vpn.pstate
        /\ c.proc = vpn.proc
    BY <1>1 DEF VpnState
  <2> HIDE DEF c
  <2>3. Shaped(c)
    BY <1>1, <1>3, <2>2 DEF Shaped
  <2> QED BY <2>1, <2>2, <2>3, SilentSays
<1>7. CASE onProbeFinished
  <2> DEFINE c == cancelTrafficProbe(vpn)
  <2>1. Done(protocolState(c, "Connected"))
    BY <1>7 DEF onProbeFinished
  <2>2. /\ c \in VpnState /\ c.kind = vpn.kind /\ c.attempt = vpn.attempt
        /\ c.out = vpn.out /\ c.state = vpn.state /\ c.pstate = vpn.pstate
        /\ c.proc = vpn.proc
    BY <1>1 DEF VpnState, cancelTrafficProbe
  <2> HIDE DEF c
  <2>3. Live(vpn) /\ "Connected" \in Working
    BY <1>1, <1>3 DEF Live, Working
  <2> QED BY <2>1, <2>2, <2>3, WorkSays
<1>8. CASE probeDeadline
  BY <1>4, <1>5, <1>8 DEF probeDeadline
<1>9. CASE backendFailure
  BY <1>4, <1>5, <1>9 DEF backendFailure
<1>10. CASE daemonDisconnected
  <2> DEFINE c == [cancelTrafficProbe(vpn) EXCEPT !.proc = "none",
                                                  !.late = FALSE]
             d == protocolState(c, "Disconnected")
  <2>1. Done(d)
    BY <1>10 DEF daemonDisconnected
  <2>2. /\ c \in VpnState /\ c.kind = vpn.kind /\ c.attempt = vpn.attempt
        /\ c.out = vpn.out /\ c.state = vpn.state /\ c.pstate = vpn.pstate
        /\ c.proc = "none" /\ c.probe = FALSE
    BY <1>1 DEF VpnState, cancelTrafficProbe
  <2> HIDE DEF c
  <2>3. /\ Adds(c, d, Over) /\ SameRun(c, d)
        /\ d.pstate = "Disconnected"
        /\ d.timer = TimerAfter("Disconnected", c.timer)
    BY <1>3, <1>4, <2>2, ProtocolAdds
  <2> HIDE DEF d
  <2>4. TimerAfter("Disconnected", c.timer) = FALSE
    BY DEF TimerAfter
  <2>5. Shaped(d) /\ Ended(d)
    BY <1>1, <2>2, <2>3, <2>4 DEF Shaped, Ended, Live, SameRun
  <2>6. Adds(vpn, c, Over)
    BY <1>1, <2>2, SilenceAdds
  <2>7. Adds(vpn, d, Over)
    BY <1>1, <2>3, <2>6, AddsTransitive
  <2> QED BY <2>1, <2>5, <2>7, EndSays
<1> QED BY <1>6, <1>7, <1>8, <1>9, <1>10

\* What the openvpn process reports.
LEMMA OpenVpnEventSays ==
    ASSUME Plain, VpnInv, vpn.out = <<>>, Shaped(vpn),
           \/ managementConnected \/ managementReconnecting
           \/ managementExiting \/ managementFatal \/ openVpnFinished
    PROVE  Report
<1>1. vpn \in VpnState /\ vpn.kind = "OpenVpn"
  BY DEF VpnInv, VpnOK, Shaped, managementConnected, managementReconnecting,
         managementExiting, managementFatal, openVpnFinished, Running
<1>2. /\ "Disconnected" \in Over /\ "Disconnected" \in ConnectionState
      /\ "Disconnecting" \in ConnectionState
      /\ "Connected" \in Working /\ "Reconnecting" \in Working
      /\ OpenVpnUnknownError \in ProtocolErrorCodes
  BY DEF ProtocolErrorCodes, Over, ConnectionState, Working
<1>3. CASE managementConnected
  <2> DEFINE c == [vpn EXCEPT !.timer = FALSE]
  <2>1. Done(protocolState(c, "Connected")) /\ Live(vpn)
    BY <1>1, <1>3 DEF managementConnected, Running, Live
  <2>2. /\ c \in VpnState /\ c.kind = vpn.kind /\ c.attempt = vpn.attempt
        /\ c.out = vpn.out /\ c.state = vpn.state /\ c.pstate = vpn.pstate
        /\ c.proc = vpn.proc
    BY <1>1 DEF VpnState
  <2> HIDE DEF c
  <2> QED BY <1>1, <1>2, <2>1, <2>2, WorkSays
<1>4. CASE managementReconnecting
  <2>1. Done(protocolState(vpn, "Reconnecting")) /\ Live(vpn)
    BY <1>1, <1>4 DEF managementReconnecting, Running, Live
  <2> QED BY <1>1, <1>2, <2>1, WorkSays
<1>5. CASE managementExiting
  <2> DEFINE c == protocolState(vpn, "Disconnecting")
             d == [c EXCEPT !.proc = "exiting"]
  <2>1. Done(d) /\ Live(vpn)
    BY <1>1, <1>5 DEF managementExiting, Running, Live
  <2>2. vpn.pstate \in Working
    BY <1>1, <2>1 DEF Shaped, Live
  <2>3. vpn.pstate # "Disconnecting" /\ vpn.pstate # "Disconnected"
    BY <2>2 DEF Working
  <2>4. /\ Adds(vpn, c, {"Disconnecting"}) /\ SameRun(vpn, c)
        /\ c.pstate = "Disconnecting"
    BY <1>1, <1>2, <2>3, ProtocolAdds
  <2>5. c \in VpnState
    BY <2>4 DEF Adds
  <2> HIDE DEF c
  <2>6. /\ d \in VpnState /\ d.kind = c.kind /\ d.attempt = c.attempt
        /\ d.out = c.out /\ d.proc = "exiting" /\ d.pstate = "Disconnecting"
    BY <2>4, <2>5 DEF VpnState
  <2> HIDE DEF d
  <2>7. Adds(c, d, {"Disconnecting"})
    BY <2>5, <2>6, SilenceAdds
  <2>8. Adds(vpn, d, {"Disconnecting"})
    BY <1>1, <2>4, <2>7, AddsTransitive
  <2>9. Shaped(d) /\ ~Live(d) /\ InPhase(d)
    BY <1>1, <2>4, <2>6 DEF Shaped, Live, InPhase, SameRun
  <2> QED BY <2>1, <2>8, <2>9, DoneSpoken DEF Report
<1>6. CASE managementFatal
  <2> DEFINE c == protocolError(vpn, OpenVpnUnknownError)
  <2>1. Done(c)
    BY <1>6 DEF managementFatal
  <2>2. /\ Adds(vpn, c, {}) /\ SameRun(vpn, c) /\ c.state = vpn.state
        /\ c.pstate = vpn.pstate /\ c.timer = vpn.timer
    BY <1>1, <1>2, CodeAdds
  <2> HIDE DEF c
  <2>3. /\ Shaped(c) /\ (Live(c) <=> Live(vpn)) /\ (Ended(c) <=> Ended(vpn))
        /\ InPhase(c) <=> InPhase(vpn)
    BY <2>2 DEF Shaped, Live, Ended, InPhase, SameRun
  <2> QED BY <2>1, <2>2, <2>3, DoneSpoken DEF Report
<1>7. CASE openVpnFinished
  <2> DEFINE c == [vpn EXCEPT !.proc = "none"]
             d == protocolState(c, "Disconnected")
  <2>1. Done(d)
    BY <1>7 DEF openVpnFinished
  <2>2. /\ c \in VpnState /\ c.kind = vpn.kind /\ c.attempt = vpn.attempt
        /\ c.out = vpn.out /\ c.state = vpn.state /\ c.pstate = vpn.pstate
        /\ c.proc = "none" /\ c.timer = vpn.timer
    BY <1>1 DEF VpnState
  <2> HIDE DEF c
  <2>3. /\ Adds(c, d, Over) /\ SameRun(c, d)
        /\ c.pstate = "Disconnected" => d = c
        /\ c.pstate # "Disconnected" =>
              /\ d.pstate = "Disconnected"
              /\ d.timer = TimerAfter("Disconnected", c.timer)
    BY <1>2, <2>2, ProtocolAdds
  <2>4. TimerAfter("Disconnected", c.timer) = FALSE
    BY DEF TimerAfter
  <2> HIDE DEF d
  <2>5. d.timer = FALSE /\ d.pstate = "Disconnected"
    BY <1>1, <2>2, <2>3, <2>4 DEF Shaped, Working
  <2>6. Shaped(d) /\ Ended(d)
    BY <1>1, <2>2, <2>3, <2>5 DEF Shaped, Ended, Live, SameRun
  <2>7. Adds(vpn, c, Over)
    BY <1>1, <2>2, SilenceAdds
  <2>8. Adds(vpn, d, Over)
    BY <1>1, <2>3, <2>7, AddsTransitive
  <2> QED BY <2>1, <2>6, <2>8, EndSays
<1> QED BY <1>3, <1>4, <1>5, <1>6, <1>7

\* VpnConnection::reconnectToVpn
LEMMA ReconnectSays ==
    ASSUME Plain, VpnInv, Truthful, Shaped(vpn), reconnectToVpn
    PROVE  Report
<1> DEFINE b == setConnectionState(vpn, "Reconnecting", vpn.attempt)
           c == Stop(b)
           W == Working \cup {"Disconnecting", "Disconnected"}
           L == Working \cup Leaves
<1>1. /\ vpn \in VpnState /\ vpn.out = <<>> /\ VpnTruth(vpn)
      /\ vpn.kind # "none" /\ vpn.state = "Connected"
      /\ vpn.kind \in {"WireGuard", "OpenVpn"}
  BY DEF VpnInv, VpnOK, VpnState, ProtocolKind, Truthful, Shaped,
         reconnectToVpn
<1>2. vpn.pstate = "Connected"
  BY <1>1, ClaimHeld DEF Claims
<1>3. Live(vpn)
  BY <1>1, <1>2 DEF Shaped, Live, Working
<1>4. /\ "Reconnecting" \in ConnectionState /\ "Reconnecting" \in W
      /\ W \subseteq L /\ {"Connecting"} \subseteq W /\ Over \subseteq L
      /\ {"Disconnecting", "Disconnected"} \subseteq W
  BY DEF ConnectionState, Working, Leaves, Over
<1> HIDE DEF W, L
<1>5. /\ Adds(vpn, b, W) /\ SameRun(vpn, b) /\ b.pstate = vpn.pstate
      /\ b.timer = vpn.timer
  BY <1>1, <1>4, StateAdds
<1>6. b \in VpnState
  BY <1>5 DEF Adds
<1>7. ASSUME NEW x, NEW y, NEW A, NEW B, A \subseteq B, Adds(x, y, A)
      PROVE  Adds(x, y, B)
  BY <1>7 DEF Adds, OnlyFrom
<1> HIDE DEF b
<1>8. /\ Adds(b, c, {"Disconnecting", "Disconnected"})
      /\ c.kind = "WireGuard" =>
            /\ c.proc = "none" /\ c.probe = FALSE
            /\ c.pstate = "Disconnected" /\ c.timer = FALSE
      /\ c.kind = "OpenVpn" =>
            /\ c.proc \in {"none", "exiting"} /\ c.timer = FALSE
            /\ c.pstate \in {"Unknown", "Disconnected", "Error"}
  <2>1. b.kind # "Xray" /\ b.pstate = "Connected"
    BY <1>1, <1>2, <1>5 DEF SameRun
  <2>2. Adds(b, c, {"Disconnecting", "Disconnected"}) /\ c.kind = b.kind
    BY <1>6, <2>1, StopAdds DEF Adds
  <2> QED BY <1>6, <2>1, <2>2, StopAdds
<1>9. c \in VpnState /\ c.kind = vpn.kind
  BY <1>5, <1>8 DEF Adds
<1> HIDE DEF c
<1>10. Startable(c)
  BY <1>1, <1>8, <1>9 DEF Startable
<1>11. PICK r \in Start(c) : Done(Started(r))
  BY DEF reconnectToVpn, c, b
<1> DEFINE f == Started(r)
<1>12. Done(f) /\ \E x : Outcome(c, f, x)
  BY <1>10, <1>11, StartedAdds
<1> HIDE DEF f
<1>13. PICK m : /\ Adds(c, m, {"Connecting"}) /\ Adds(m, f, Over) /\ Shaped(f)
                /\ \/ /\ f = m /\ Live(f)
                      /\ f.state = "Connecting" /\ f.pstate = "Connecting"
                   \/ Ended(f)
  BY <1>12 DEF Outcome
<1>14. Adds(vpn, m, W) /\ m \in VpnState
  <2>1. Adds(b, c, W) /\ Adds(c, m, W)
    BY <1>4, <1>7, <1>8, <1>13
  <2>2. Adds(vpn, c, W)
    BY <1>1, <1>5, <2>1, AddsTransitive
  <2> QED BY <1>1, <1>13, <2>1, <2>2, AddsTransitive DEF Adds
<1>15. Adds(vpn, f, L)
  <2>1. Adds(vpn, m, L) /\ Adds(m, f, L)
    BY <1>4, <1>7, <1>13, <1>14
  <2> QED BY <1>1, <2>1, AddsTransitive
<1>16. CASE f = m /\ Live(f) /\ f.state = f.pstate
  <2>1. InPhase(f) /\ Adds(vpn, f, W)
    BY <1>14, <1>16 DEF InPhase
  <2> QED BY <1>1, <1>3, <1>12, <1>13, <1>16, <2>1, DoneSpoken DEF Report, W
<1>17. CASE Ended(f)
  <2>1. InPhase(f)
    BY <1>17 DEF InPhase, Ended
  <2> QED BY <1>1, <1>3, <1>12, <1>13, <1>15, <1>17, <2>1, DoneSpoken
          DEF Report, L
<1> QED BY <1>13, <1>16, <1>17

\* Whatever reaches the protocol.
LEMMA EventSays ==
    ASSUME Plain, VpnInv, Truthful, Shaped(vpn),
           onTimeout \/ ProtocolEvent \/ reconnectToVpn \/ addSitesRoutes
    PROVE  Report
<1>1. vpn.out = <<>> /\ vpn.kind # "Xray" /\ vpn \in VpnState
  BY DEF Truthful, Shaped, VpnInv, VpnOK
<1>2. CASE addSitesRoutes
  <2> DEFINE c == [vpn EXCEPT !.siteTimer = FALSE, !.routes = @ \cup {"sites"}]
  <2>1. Done(c)
    BY <1>2 DEF addSitesRoutes
  <2>2. /\ c \in VpnState /\ c.kind = vpn.kind /\ c.attempt = vpn.attempt
        /\ c.out = vpn.out /\ c.state = vpn.state /\ c.pstate = vpn.pstate
        /\ c.proc = vpn.proc /\ c.timer = vpn.timer /\ c.probe = vpn.probe
    BY <1>1 DEF VpnState
  <2> HIDE DEF c
  <2>3. Shaped(c)
    BY <2>2 DEF Shaped
  <2> QED BY <1>1, <2>1, <2>2, <2>3, SilentSays
<1>3. CASE ProtocolEvent
  <2>1. ~(tun2socksReady \/ tun2socksBusy \/ startTun2Socks \/ tun2socksFinished)
    BY <1>1
    DEF tun2socksReady, tun2socksBusy, startTun2Socks, tun2socksFinished,
        Running
  <2> QED BY <1>1, <1>3, <2>1, WireguardEventSays, LateSays, OpenVpnEventSays
          DEF ProtocolEvent
<1> QED BY <1>1, <1>2, <1>3, TimeoutSays, ReconnectSays

\* Nothing is heard any more of a protocol without a process.
LEMMA IdleSilent ==
    ASSUME Plain, VpnInv, Truthful, Shaped(vpn), vpn.proc = "none",
           onTimeout \/ ProtocolEvent \/ reconnectToVpn \/ addSitesRoutes
    PROVE  inbox' = inbox /\ vpn'.proc = "none"
<1>1. /\ vpn.out = <<>> /\ vpn.kind # "Xray" /\ vpn \in VpnState
      /\ inbox \in Seq(Event) /\ vpn.timer = FALSE
      /\ vpn.kind = "WireGuard" => vpn.probe = FALSE
  BY DEF Truthful, Shaped, VpnInv, VpnOK, VpnState, ProtocolKind, Working
<1>2. ~onTimeout
  BY <1>1 DEF onTimeout
<1>3. ProtocolEvent => lateDisconnected
  BY <1>1
  DEF ProtocolEvent, startTrafficProbe, onProbeFinished, probeDeadline,
      backendFailure, daemonDisconnected,
      managementConnected, managementReconnecting, managementExiting,
      managementFatal, openVpnFinished, tun2socksReady, tun2socksBusy,
      startTun2Socks, tun2socksFinished, Running
<1>4. ~reconnectToVpn
  <2>1. SUFFICES ASSUME reconnectToVpn PROVE FALSE
    OBVIOUS
  <2>2. vpn.kind # "none" /\ vpn.state = "Connected"
    BY <2>1 DEF reconnectToVpn
  <2>3. vpn.pstate = "Connected"
    BY <1>1, <2>2, ClaimHeld DEF Claims, Truthful
  <2>4. vpn.kind \in {"WireGuard", "OpenVpn"}
    BY <1>1, <2>2 DEF VpnState, ProtocolKind
  <2> QED BY <2>3, <2>4 DEF Shaped, Working
<1>5. SUFFICES ASSUME addSitesRoutes PROVE inbox' = inbox /\ vpn'.proc = "none"
  BY <1>1, <1>2, <1>3, <1>4, LateSays
<1> DEFINE c == [vpn EXCEPT !.siteTimer = FALSE, !.routes = @ \cup {"sites"}]
<1>6. Done(c)
  BY <1>5 DEF addSitesRoutes
<1>7. c.out = <<>> /\ c.proc = "none" /\ c \in VpnState
  BY <1>1 DEF VpnState
<1> HIDE DEF c
<1> QED BY <1>1, <1>6, <1>7 DEF Done, VpnState

\* The constructor.
LEMMA VpnInitShaped ==
    VpnInit => Shaped(vpn)
BY DEF VpnInit, Shaped

=============================================================================
