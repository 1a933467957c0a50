---------------------------- MODULE VpnConnection ----------------------------
(***************************************************************************)
(* The VPN thread: VpnConnection, the protocol object it owns, and the      *)
(* signals that climb from the protocol through VpnConnection to the        *)
(* user-interface thread.                                                   *)
(*                                                                          *)
(* A slot of this thread runs to completion and may change state and emit   *)
(* several times. Its effect is written as a composition of operators that  *)
(* take the thread's state, a record c, to the next one; c.out collects the *)
(* signals the slot emits, which are queued for the user-interface thread.  *)
(*                                                                          *)
(* What drives a protocol from outside (the daemon's answers, the traffic   *)
(* probe, the openvpn and tun2socks processes) appears as the events that   *)
(* reach the protocol object.                                               *)
(***************************************************************************)
EXTENDS VpnCommon

CONSTANTS SiteRouting,           \* split tunnelling by site: the route mode
          maxTun2SocksRetries,   \* restarts of a busy tun2socks
          MaxEvents              \* bound: network changes, flaps of a protocol
                                 \* and reports misheard

ASSUME VpnAssumption ==
    /\ SiteRouting \in {"off", "VpnOnlyForwardSites", "VpnAllExceptSites"}
    /\ maxTun2SocksRetries \in Nat
    /\ MaxEvents \in Nat

VARIABLES vpn,       \* state of the thread
          events     \* network changes, flaps and misheard reports so far

\* attempt is the one the protocol object was made for; proc says whether the
\* daemon's tunnel, openvpn or tun2socks runs for it ("exiting": it was told
\* to stop and its end has not been reported yet). late: a working activation
\* was given up and the daemon's answer, "disconnected", is still to be heard.
\* awaited: the handshake of the last activation has not been reported.
VpnState ==
    [state : ConnectionState, kind : ProtocolKind, attempt : Attempt,
     pstate : ConnectionState, lastError : ErrorCode \cup {NoError},
     timer : BOOLEAN, proc : {"none", "running", "exiting"},
     late : BOOLEAN, awaited : BOOLEAN, probe : BOOLEAN, reported : BOOLEAN,
     retry : BOOLEAN, retries : Nat,
     routes : SUBSET {"dns", "sites"}, siteTimer : BOOLEAN,
     out : Seq(Signal)]

Emit(c, signal) == [c EXCEPT !.out = Append(@, signal)]

\* The slot that takes the thread to c ends: its signals are queued.
Done(c) ==
    /\ vpn' = [c EXCEPT !.out = <<>>]
    /\ inbox' = inbox \o c.out

-----------------------------------------------------------------------------
(* VpnConnection::setConnectionState and the routes it keeps. *)

\* The default server's protocol decides, not the one that is connected.
RoutesDns == KindOf[defaultServer] # "WireGuard"

\* Faulty variant: only an error takes the routes away.
onConnectionStateChangedKept(c, s) ==
    IF s = "Connected" /\ RoutesDns
    THEN [c EXCEPT !.routes = @ \cup {"dns"} \cup
                       (IF SiteRouting = "VpnAllExceptSites"
                        THEN {"sites"} ELSE {}),
                   !.siteTimer = @ \/ SiteRouting = "VpnOnlyForwardSites"]
    ELSE IF s = "Error" THEN [c EXCEPT !.routes = {}]
    ELSE c

onConnectionStateChanged(c, s) ==
    IF s = "Connected" /\ RoutesDns
    THEN [c EXCEPT !.routes = @ \cup {"dns"} \cup
                       (IF SiteRouting = "VpnAllExceptSites"
                        THEN {"sites"} ELSE {}),
                   !.siteTimer = @ \/ SiteRouting = "VpnOnlyForwardSites"]
    ELSE IF s \in {"Disconnected", "Error"}
    THEN [c EXCEPT !.routes = {}]
    ELSE c

\* a is the attempt that caused the change.
setConnectionState(c, s, a) ==
    LET d == onConnectionStateChanged(c, s)
    IN  IF s = "Disconnected" /\ c.state = "Reconnecting"
        THEN d
        ELSE Emit([d EXCEPT !.state = s], StateSignal(s, a))

-----------------------------------------------------------------------------
(* VpnProtocol: the base class of every protocol. *)

\* Faulty variant: nothing limits how long a tunnel may take to come up.
TimerAfterNever(s, armed) ==
    IF s \in {"Connected", "Disconnected", "Error"} THEN FALSE ELSE armed

TimerAfter(s, armed) ==
    CASE s \in {"Connecting", "Reconnecting"} -> TRUE
      [] s \in {"Connected", "Disconnected", "Error"} -> FALSE
      [] OTHER -> armed

protocolState(c, s) ==
    IF c.pstate = s \/ (c.pstate = "Disconnected" /\ s = "Disconnecting")
    THEN c
    ELSE setConnectionState([c EXCEPT !.pstate = s,
                                      !.timer = TimerAfter(s, @)],
                            s, c.attempt)

setLastError(c, e) == protocolState([c EXCEPT !.lastError = e], "Error")

protocolError(c, e) == Emit(c, ErrorSignal(e, c.attempt))

-----------------------------------------------------------------------------
(* Stopping a protocol. *)

\* Faulty variant: the probe goes on.
cancelTrafficProbeNot(c) == c

cancelTrafficProbe(c) == [c EXCEPT !.probe = FALSE]

\* deactivate drops "disconnected" synchronously; the daemon will say so again.
stopWireguard(c) ==
    protocolState([cancelTrafficProbe(c) EXCEPT
                       !.late = @ \/ c.proc = "running",
                       !.proc = "none"],
                  "Disconnected")

cleanupResources(c) ==
    [c EXCEPT !.proc = IF @ = "running" THEN "exiting" ELSE @]

WasActive(c) ==
    c.pstate \in {"Preparing", "Connecting", "Connected", "Reconnecting"}

stopOpenVpn(c) ==
    LET d == IF WasActive(c) THEN protocolState(c, "Disconnecting") ELSE c
        e == cleanupResources(d)
    IN  IF WasActive(c) \/ e.pstate = "Disconnecting"
        THEN protocolState(e, "Disconnected") ELSE e

\* The pending restart of a busy tun2socks is not cancelled.
stopXray(c) == protocolState([c EXCEPT !.proc = "none"], "Disconnected")

Stop(c) ==
    CASE c.kind = "WireGuard" -> stopWireguard(c)
      [] c.kind = "OpenVpn"   -> stopOpenVpn(c)
      [] c.kind = "Xray"      -> stopXray(c)
      [] OTHER                -> c

-----------------------------------------------------------------------------
(* Starting a protocol. Each operator gives the states start may end in,    *)
(* with the error it returns.                                               *)

failConnection(c, e) ==
    IF c.reported THEN c
    ELSE stopWireguard(protocolError(setLastError(
             cancelTrafficProbe([c EXCEPT !.reported = TRUE]), e), e))

startWireguard(c) ==
    LET d == protocolState([c EXCEPT !.reported = FALSE], "Connecting")
    IN  {[after |-> [d EXCEPT !.proc = "running", !.awaited = TRUE],
          error |-> NoError],
         [after |-> failConnection(d, AddressPoolError),
          error |-> AddressPoolError]}

startOpenVpn(c) ==
    LET d == cleanupResources(c)
    IN  {\* no config file or management server
         [after |-> setLastError(d, OpenVpnConfigMissing),
          error |-> OpenVpnConfigMissing],
         \* the kill switch refuses the server's address
         [after |-> d, error |-> AmneziaServiceConnectionFailed],
         \* no privileged process
         [after |-> setLastError(
              protocolState([d EXCEPT !.proc = "none"], "Connecting"),
              AmneziaServiceConnectionFailed),
          error |-> AmneziaServiceConnectionFailed],
         [after |-> [protocolState(d, "Connecting") EXCEPT !.proc = "running"],
          error |-> NoError]}

startXray(c) ==
    LET d == protocolState(c, "Connecting")
    IN  {[after |-> d, error |-> XrayExecutableCrashed],
         [after |-> [d EXCEPT !.proc = "running"], error |-> NoError]}

Start(c) ==
    CASE c.kind = "WireGuard" -> startWireguard(c)
      [] c.kind = "OpenVpn"   -> startOpenVpn(c)
      [] c.kind = "Xray"      -> startXray(c)
      [] OTHER                -> {}

\* What connectToVpn and reconnectToVpn make of the value start returned.
Started(r) ==
    IF r.error = NoError THEN r.after
    ELSE Emit(setConnectionState(r.after, "Error", r.after.attempt),
              ErrorSignal(r.error, r.after.attempt))

-----------------------------------------------------------------------------
(* The slots of VpnConnection. *)

\* m_lastError is not initialised. handleConnectionState tells one thing of a
\* code: whether it is one of the subscription API. One value for each answer.
Uninitialised == {NoError, ApiConfigDownloadError}

\* A new protocol object; the old one's timers and its socket die with it. The
\* daemon answers everybody who is connected when it gets to the deactivation:
\* late says whether the new object's socket is by then.
factory(c, a, garbage, late) ==
    [c EXCEPT !.kind = KindOf[a.server], !.attempt = a, !.pstate = "Unknown",
              !.lastError = garbage, !.timer = FALSE, !.proc = "none",
              !.late = late, !.awaited = FALSE, !.probe = FALSE,
              !.reported = FALSE, !.retry = FALSE, !.retries = 0, !.siteTimer = FALSE]

\* The old protocol's state signal stays connected while it is stopped, after
\* "Connecting" was announced for the new attempt.
connectToVpn(a) ==
    LET stopped == Stop(setConnectionState(vpn, "Connecting", a))
    IN  \E garbage \in Uninitialised, late \in {FALSE, stopped.late} :
        LET c == factory(stopped, a, garbage, late)
        IN  \/ /\ c.kind = "none"
               /\ Done(setConnectionState(c, "Error", a))
            \/ /\ c.kind # "none"
               /\ \E r \in Start(c) : Done(Started(r))

disconnectFromVpn ==
    \/ /\ vpn.kind = "none"
       /\ Done(setConnectionState(vpn, "Disconnected", vpn.attempt))
    \/ /\ vpn.kind # "none"
       /\ LET c == Stop(setConnectionState(vpn, "Disconnecting", vpn.attempt))
          IN  Done([c EXCEPT !.kind = "none", !.timer = FALSE,
                               !.proc = "none", !.retry = FALSE,
                               !.siteTimer = FALSE])

Flap ==
    /\ events < MaxEvents
    /\ events' = events + 1

\* networkChanged or wakeup of the service.
reconnectToVpn ==
    /\ Flap
    /\ vpn.kind # "none"
    /\ vpn.state = "Connected"
    /\ \E r \in Start(Stop(setConnectionState(vpn, "Reconnecting",
                                              vpn.attempt))) :
           Done(Started(r))

\* The delayed addSitesRoutes.
addSitesRoutes ==
    /\ vpn.siteTimer
    /\ Done([vpn EXCEPT !.siteTimer = FALSE, !.routes = @ \cup {"sites"}])
    /\ UNCHANGED events

-----------------------------------------------------------------------------
(* Events that reach the protocol object. *)

\* Faulty variant: the tunnel that did not come up is not stopped.
onTimeoutLeavesRunning ==
    /\ vpn.timer
    /\ Done(cancelTrafficProbe(
           protocolError(setLastError([vpn EXCEPT !.timer = FALSE],
                                      VpnTunnelDidNotComeUpError),
                         VpnTunnelDidNotComeUpError)))
    /\ UNCHANGED events

onTimeout ==
    /\ vpn.timer
    /\ LET c == protocolError(
                    setLastError([vpn EXCEPT !.timer = FALSE],
                                 VpnTunnelDidNotComeUpError),
                    VpnTunnelDidNotComeUpError)
       IN  Done(Stop(cancelTrafficProbe(c)))
    /\ UNCHANGED events

Running(kind) == vpn.kind = kind /\ vpn.proc = "running"

\* The daemon reports the handshake, once for an activation. Its reports are
\* read in the order they were written: the answer to an earlier deactivation
\* comes first.
startTrafficProbe ==
    /\ Running("WireGuard") /\ ~vpn.late /\ vpn.awaited
    /\ Done([vpn EXCEPT !.awaited = FALSE, !.probe = TRUE, !.timer = FALSE])
    /\ UNCHANGED events

\* A probe was answered.
onProbeFinished ==
    /\ vpn.kind = "WireGuard" /\ vpn.probe
    /\ Done(protocolState(cancelTrafficProbe(vpn), "Connected"))
    /\ UNCHANGED events

probeDeadline ==
    /\ vpn.kind = "WireGuard" /\ vpn.probe
    /\ Done(failConnection(vpn, VpnTunnelDidNotComeUpError))
    /\ UNCHANGED events

backendFailure ==
    /\ Running("WireGuard") /\ ~vpn.late
    /\ Done(failConnection(vpn, AmneziaServiceConnectionFailed))
    /\ UNCHANGED events

\* The daemon ends the tunnel by itself, or its socket closes.
daemonDisconnected ==
    /\ Running("WireGuard")
    /\ Done(protocolState([cancelTrafficProbe(vpn) EXCEPT !.proc = "none",
                                                          !.late = FALSE],
                           "Disconnected"))
    /\ UNCHANGED events

\* The daemon's answer to an earlier deactivate finds nothing to change, or no
\* one who would hear it.
lateDisconnected ==
    /\ vpn.late /\ (vpn.kind = "WireGuard" => vpn.pstate = "Disconnected")
    /\ Done([cancelTrafficProbe(vpn) EXCEPT !.late = FALSE])
    /\ UNCHANGED events

\* Reports do not say which activation they are about. What the daemon wrote
\* about one that was given up meanwhile is taken for news of the current one:
\* a handshake, a failure, or the answer to the deactivation itself.
misheardReport ==
    /\ Flap
    /\ vpn.kind = "WireGuard" /\ vpn.late
    /\ \/ /\ vpn.proc # "running" /\ vpn.awaited
          /\ Done([vpn EXCEPT !.awaited = FALSE, !.probe = TRUE, !.timer = FALSE])
       \/ /\ vpn.proc # "running"
          /\ Done(failConnection(vpn, AmneziaServiceConnectionFailed))
       \/ /\ vpn.pstate # "Disconnected"
          /\ Done(protocolState([cancelTrafficProbe(vpn) EXCEPT !.late = FALSE],
                                "Disconnected"))

managementConnected ==
    /\ Running("OpenVpn") /\ vpn.pstate # "Connected"
    /\ Done(protocolState([vpn EXCEPT !.timer = FALSE], "Connected"))
    /\ UNCHANGED events

managementReconnecting ==
    /\ Flap
    /\ Running("OpenVpn") /\ vpn.pstate # "Reconnecting"
    /\ Done(protocolState(vpn, "Reconnecting"))

managementExiting ==
    /\ Running("OpenVpn") /\ vpn.pstate # "Disconnecting"
    /\ Done([protocolState(vpn, "Disconnecting") EXCEPT !.proc = "exiting"])
    /\ UNCHANGED events

managementFatal ==
    /\ Flap
    /\ Running("OpenVpn")
    /\ Done(protocolError(vpn, OpenVpnUnknownError))

\* Faulty variant: nobody hears of the end of the process.
openVpnFinishedUnheard ==
    /\ vpn.kind = "OpenVpn" /\ vpn.proc \in {"running", "exiting"}
    /\ Done([vpn EXCEPT !.proc = "none"])
    /\ UNCHANGED events

openVpnFinished ==
    /\ vpn.kind = "OpenVpn" /\ vpn.proc \in {"running", "exiting"}
    /\ Done(protocolState([vpn EXCEPT !.proc = "none"], "Disconnected"))
    /\ UNCHANGED events

\* tun2socks is attached to the tunnel device; setupRouting may fail.
tun2socksReady ==
    /\ Running("Xray") /\ vpn.pstate # "Connected"
    /\ \/ Done(protocolState(vpn, "Connected"))
       \/ Done(setLastError(stopXray(vpn), InternalError))
    /\ UNCHANGED events

tun2socksBusy ==
    /\ Running("Xray")
    /\ vpn.retries < maxTun2SocksRetries
    /\ Done([vpn EXCEPT !.proc = "none", !.retries = @ + 1, !.retry = TRUE])
    /\ UNCHANGED events

\* The single-shot restart fires whatever happened to the protocol meanwhile.
startTun2Socks ==
    /\ vpn.kind = "Xray" /\ vpn.retry
    /\ LET c == [vpn EXCEPT !.retry = FALSE]
       IN  \/ Done([c EXCEPT !.proc = "running"])
           \/ Done(setLastError(stopXray(c), AmneziaServiceConnectionFailed))
    /\ UNCHANGED events

tun2socksFinished ==
    /\ Running("Xray")
    /\ Done(setLastError(stopXray([vpn EXCEPT !.retries = 0]),
                           Tun2SockExecutableCrashed))
    /\ UNCHANGED events

ProtocolEvent ==
    \/ startTrafficProbe \/ onProbeFinished \/ probeDeadline
    \/ backendFailure \/ daemonDisconnected \/ lateDisconnected
    \/ managementConnected \/ managementReconnecting \/ managementExiting
    \/ managementFatal \/ openVpnFinished
    \/ tun2socksReady \/ tun2socksBusy \/ startTun2Socks \/ tun2socksFinished

-----------------------------------------------------------------------------
\* The constructor leaves m_connectionState uninitialised.
VpnInit ==
    /\ \E garbage \in ConnectionState :
       vpn = [state |-> garbage, kind |-> "none", attempt |-> NoAttempt,
              pstate |-> "Unknown", lastError |-> NoError, timer |-> FALSE,
              proc |-> "none", late |-> FALSE, awaited |-> FALSE, probe |-> FALSE, reported |-> FALSE,
              retry |-> FALSE, retries |-> 0, routes |-> {},
              siteTimer |-> FALSE, out |-> <<>>]
    /\ events = 0
==============================================================================
