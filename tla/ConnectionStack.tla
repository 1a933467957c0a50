--------------------------- MODULE ConnectionStack ---------------------------
(***************************************************************************)
(* The connection of the desktop client as a whole: the user-interface      *)
(* thread (ConnectionController) and the VPN thread (VpnConnection), which  *)
(* talk only through their two event queues, the user, the timers and the   *)
(* events that reach the protocol.                                          *)
(***************************************************************************)
EXTENDS ConnectionController, VpnConnection

CONSTANT Patient   \* the user asks for a connection only when nothing of an
                   \* earlier request is under way, and does not close or
                   \* reconnect while a config is validated

ASSUME StackAssumption == Patient \in BOOLEAN

VARIABLE connectedVia    \* history: attempt of the last "Connected" delivered

vars == <<controllerVars, posted, inbox, vpn, events, connectedVia>>

vpnVars == <<vpn, events, connectedVia>>

Quiescent == posted = <<>> /\ inbox = <<>> /\ validating = 0

\* Nothing can still be heard of an earlier attempt: pending and posted
\* are empty, no process runs, no timer is armed and the protocol object, if
\* there still is one, has said all it will say when it is stopped.
AtRest(pending) ==
    /\ posted = <<>> /\ pending = <<>>
    /\ vpn.kind = "WireGuard" => vpn.pstate = "Disconnected"
    /\ vpn.kind = "OpenVpn"
          => vpn.pstate \in {"Unknown", "Disconnected", "Error"}
    /\ vpn.proc = "none" /\ ~vpn.late
    /\ ~vpn.timer /\ ~vpn.probe /\ ~vpn.retry

-----------------------------------------------------------------------------
(* The event loop of the user-interface thread. *)

\* VpnConnection::lastError, read across threads.
VpnLastError == IF vpn.kind = "none" THEN InternalError ELSE vpn.lastError

NextEvent(type) == inbox # <<>> /\ Head(inbox).type = type

DeliverState ==
    /\ NextEvent("state")
    /\ HandleConnectionState(Head(inbox).state,
                             lastConnectionError(VpnLastError))
    /\ connectedVia' = IF Head(inbox).state = "Connected"
                       THEN Head(inbox).attempt ELSE connectedVia
    /\ UNCHANGED <<vpn, events>>

DeliverError ==
    /\ NextEvent("error")
    /\ HandleProtocolError(Head(inbox).code)
    /\ UNCHANGED vpnVars

DeliverOpen ==
    /\ NextEvent("open")
    /\ Reopen(AtRest(Tail(inbox)))
    /\ UNCHANGED vpnVars

UiTurn == DeliverState \/ DeliverError \/ DeliverOpen

Validation ==
    /\ ConfigValidated(AtRest(inbox)) \/ ConfigRefused
    /\ UNCHANGED vpnVars

Budget == BudgetFires /\ UNCHANGED vpnVars

-----------------------------------------------------------------------------
(* The user. *)

OpenClick == ToggleOn \/ ToggleBlocked \/ ReconnectOpening(AtRest(inbox))

CloseClick == ToggleOff \/ switchProto \/ ReconnectClosing

User ==
    /\ \/ (Patient => Quiescent) /\ OpenClick
       \/ (Patient => validating = 0) /\ CloseClick
       \/ \E s \in Servers : SetDefaultServer(s)
    /\ UNCHANGED vpnVars

-----------------------------------------------------------------------------
(* The event loop of the VPN thread. *)

TakeCommand ==
    /\ posted' = Tail(posted)
    /\ UNCHANGED <<controllerVars, events, connectedVia>>

DeliverConnect ==
    /\ posted # <<>> /\ Head(posted).op = "connect"
    /\ connectToVpn(Head(posted).attempt)
    /\ TakeCommand

DeliverDisconnect ==
    /\ posted # <<>> /\ Head(posted).op = "disconnect"
    /\ disconnectFromVpn
    /\ TakeCommand

DeliverSetState ==
    /\ posted # <<>> /\ Head(posted).op = "set"
    /\ Done(setConnectionState(vpn, Head(posted).state, vpn.attempt))
    /\ TakeCommand

VpnTurn == DeliverConnect \/ DeliverDisconnect \/ DeliverSetState

Unseen == UNCHANGED <<controllerVars, posted, connectedVia>>

Timeout == onTimeout /\ Unseen

ProbeDeadline == probeDeadline /\ Unseen

Outside == (ProtocolEvent \/ reconnectToVpn \/ addSitesRoutes) /\ Unseen

\* The opening is no longer a calm one.
Misheard ==
    /\ misheardReport
    /\ calm' = FALSE
    /\ UNCHANGED <<failoverVars, lastProtocolError, uiVars, launches, requested,
                   announced, overran, launched, intent, defaultServer,
                   posted, connectedVia>>

-----------------------------------------------------------------------------
Init == ControllerInit /\ VpnInit /\ connectedVia = NoAttempt

Next == \/ UiTurn \/ Validation \/ Budget \/ User
        \/ VpnTurn \/ Timeout \/ Outside \/ Misheard

Spec == Init /\ [][Next]_vars

\* Event loops turn, timers that stay armed fire, a validation ends. Users,
\* servers and networks promise nothing.
Fairness ==
    /\ WF_vars(UiTurn) /\ WF_vars(Validation)
    /\ WF_vars(VpnTurn) /\ WF_vars(Timeout) /\ WF_vars(ProbeDeadline)

FairSpec == Spec /\ Fairness

-----------------------------------------------------------------------------
(* Properties. *)

TypeOK ==
    /\ ControllerTypeOK
    /\ vpn \in VpnState
    /\ events \in Nat
    /\ connectedVia \in Attempt

\* A backup server is launched only for a failure of the attempt launched
\* last: no failure is charged twice (handleConnectionState, m_switching). Left
\* out are an opening that met messages of an earlier one, and one during which
\* a report of the daemon on a given-up activation was taken for its own (calm).
OneFailureOneCandidate ==
    [][(DeliverState /\ calm /\ launches' # launches)
          => Head(inbox).attempt.no = launches]_vars

\* Whoever is connected through another server than the one asked for has been
\* told so by switchedToBackup, when the opening was left alone.
NeverSwitchedSilently ==
    (ui = "Connected" /\ calm /\ connectedVia.server # requested)
        => connectedVia.server \in announced

\* The same within the time budget.
BackupAnnounced ==
    (ui = "Connected" /\ calm /\ ~overran /\ connectedVia.server # requested)
        => connectedVia.server \in announced

Exhausted ==
    \A k \in DOMAIN Candidates(requested) :
        Candidates(requested)[k] \in Preparable
            => \E i \in DOMAIN launched : launched[i] = Candidates(requested)[k]

\* "Connecting" turns into an error only after every server of the queue that
\* can be prepared was tried, unless the tunnel came up, time ran out or
\* something else was asked for meanwhile. An error of the subscription API
\* ends the failover at once: no desktop protocol sets one, but the value of a
\* protocol that has set none is read uninitialised and may look like one.
ErrorOnlyWhenExhausted ==
    [][(/\ DeliverState /\ ui = "Connecting" /\ ui' = "Error"
        /\ intent = "opening" /\ calm /\ ~overran
        /\ ~isSubscriptionError(lastConnectionError(VpnLastError)))
            => Exhausted]_vars

\* The same for an opening that follows the validation of its config, whose
\* "Preparing" may still be under way.
BackupsTriedFirst ==
    [][(/\ DeliverState /\ ui = "Connecting" /\ ui' = "Error"
        /\ intent = "opening" /\ ~overran
        /\ ~isSubscriptionError(lastConnectionError(VpnLastError)))
            => Exhausted]_vars

\* With nothing under way between the threads, the screen shows the state
\* VpnConnection is in.
ScreenShowsState ==
    (Quiescent /\ vpn.attempt.no > 0) => ui = vpn.state

LiveProtocol == vpn.kind # "none" /\ vpn.proc = "running"

\* An opening that was left alone never leaves a protocol at work behind a
\* screen that offers to connect, once nothing is under way between the
\* threads.
IdleScreenIdleProtocol ==
    (Quiescent /\ calm /\ ui \in {"Disconnected", "Error"}) => ~LiveProtocol

\* With nothing under way between the threads, a screen that says "Connected"
\* has a working protocol behind it, unless word that the tunnel is gone is
\* still to be read (the daemon's answer to a deactivation) or tun2socks is
\* about to be started again.
ConnectedHasTunnel ==
    (Quiescent /\ ui = "Connected")
        => \/ LiveProtocol \/ vpn.retry
           \/ vpn.kind = "WireGuard" /\ vpn.late

\* After the user asked to close and everything asked for was carried out, no
\* protocol works on.
ClosedStaysClosed ==
    (Quiescent /\ intent = "closing") => ~LiveProtocol

\* controllerimpl.h says that the client is connecting, or disconnecting, until
\* the controller's "disconnected": a screen that says so, with nothing under
\* way between the threads, has no WireGuard tunnel being opened behind it.
DisconnectedMeansEnded ==
    (Quiescent /\ ui = "Disconnected")
        => ~(vpn.kind = "WireGuard" /\ vpn.proc = "running")

\* Routes for the tunnel's DNS servers do not outlive the tunnel.
DnsRoutesOnlyWithTunnel ==
    "dns" \in vpn.routes
        => vpn.kind # "none"
           /\ vpn.pstate \in {"Connected", "Reconnecting", "Disconnecting"}

\* A screen at "Disconnecting" still waits for a process to end or a timer to
\* fire, or it has no protocol behind it any more, and then the next press of
\* the button ends it (disconnectFromVpn without a protocol).
DisconnectingCanEnd ==
    (Quiescent /\ ui = "Disconnecting")
        => vpn.kind = "none" \/ vpn.proc = "exiting" \/ vpn.timer

\* "Preparing", "Connecting" and "Reconnecting" do not last for ever.
BusyEnds ==
    ui \in {"Preparing", "Connecting", "Reconnecting"}
        ~> ui \in {"Connected", "Disconnected", "Disconnecting", "Error"}
==============================================================================
