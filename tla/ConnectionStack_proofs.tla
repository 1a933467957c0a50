------------------------ MODULE ConnectionStack_proofs ------------------------
(***************************************************************************)
(* The two threads together: what was proved of each one's steps, applied   *)
(* to the steps of the composition. A step of one thread changes the state  *)
(* of the other at most by appending to its queue.                          *)
(***************************************************************************)
EXTENDS ConnectionStack, ConnectionController_proofs, VpnConnection_proofs

StackInv == /\ ControllerInv
            /\ VpnOK(vpn)
            /\ events \in Nat
            /\ connectedVia \in Attempt

-----------------------------------------------------------------------------
(* Heads of the queues. *)

\* A state signal names the attempt it stems from.
LEMMA SignalNamesAttempt ==
    ASSUME inbox \in Seq(Event), inbox # <<>>, Head(inbox).type = "state"
    PROVE  Head(inbox).attempt \in Attempt
<1>1. Head(inbox) \in Event
  BY HeadTailProperties
<1> QED BY <1>1 DEF Event, Signal, OpenInvocation

\* A command carries what the slot it invokes takes.
LEMMA FirstCommand ==
    ASSUME posted \in Seq(Command), posted # <<>>
    PROVE  /\ Tail(posted) \in Seq(Command)
           /\ Head(posted).op = "connect" => Head(posted).attempt \in Attempt
           /\ Head(posted).op = "set" => Head(posted).state \in RequestedState
<1>1. Head(posted) \in Command /\ Tail(posted) \in Seq(Command)
  BY HeadTailProperties
<1> QED BY <1>1 DEF Command

-----------------------------------------------------------------------------
(* Steps of the VPN thread. *)

\* What the user-interface thread keeps, but for the mark of an opening that is
\* left alone.
besidesCalm == <<failoverVars, lastProtocolError, uiVars, launches, requested,
                 announced, overran, launched, intent, defaultServer>>

\* Only a report that is misheard ends an opening that was left alone.
LEMMA BesidesCalm ==
    /\ UNCHANGED controllerVars => UNCHANGED besidesCalm /\ calm' = calm
    /\ Misheard => UNCHANGED <<besidesCalm, posted, connectedVia>> /\ calm' = FALSE
BY DEF controllerVars, besidesCalm, historyVars, Misheard

\* A step of the VPN thread that keeps its own state in order and the two
\* queues typed leaves the user-interface thread as it is.
LEMMA VpnStepKeeps ==
    ASSUME StackInv, VpnInv', posted' \in Seq(Command), events' \in Nat,
           UNCHANGED <<besidesCalm, connectedVia>>, calm' \in {calm, FALSE}
    PROVE  StackInv'
<1>1. inbox' \in Seq(Event) /\ VpnOK(vpn)'
  BY DEF VpnInv
<1>2. ControllerTypeOK'
  BY <1>1
  DEF StackInv, ControllerInv, ControllerTypeOK, besidesCalm, failoverVars,
      uiVars
<1>3. FailoverBounded' /\ LaunchedFromQueue'
  BY FailoverUntouched DEF StackInv, besidesCalm, failoverVars
<1> QED BY <1>1, <1>2, <1>3 DEF StackInv, ControllerInv

\* The event loop of the VPN thread takes one command.
LEMMA VpnTurnKeeps ==
    ASSUME StackInv, VpnTurn
    PROVE  StackInv'
<1>1. /\ posted \in Seq(Command) /\ inbox \in Seq(Event)
      /\ VpnInv
  BY DEF StackInv, ControllerInv, ControllerTypeOK, VpnInv
<1>2. posted # <<>> /\ TakeCommand
  BY DEF VpnTurn, DeliverConnect, DeliverDisconnect, DeliverSetState
<1>3. /\ posted' \in Seq(Command) /\ events' \in Nat
      /\ UNCHANGED <<controllerVars, connectedVia>>
  BY <1>1, <1>2, FirstCommand DEF TakeCommand, StackInv
<1>4. VpnInv'
  <2>1. CASE DeliverConnect
    BY <1>1, <2>1, FirstCommand, ConnectKeeps DEF DeliverConnect
  <2>2. CASE DeliverDisconnect
    BY <1>1, <2>2, DisconnectKeeps DEF DeliverDisconnect
  <2>3. CASE DeliverSetState
    BY <1>1, <2>3, FirstCommand, SetStateKeeps DEF DeliverSetState
  <2> QED BY <2>1, <2>2, <2>3 DEF VpnTurn
<1> QED BY <1>3, <1>4, BesidesCalm, VpnStepKeeps

\* Network changes and flaps are counted, other events are not.
LEMMA EventsCounted ==
    ASSUME events \in Nat,
           \/ onTimeout \/ ProtocolEvent \/ reconnectToVpn \/ addSitesRoutes
           \/ misheardReport
    PROVE  events' \in Nat
<1>1. events' = events \/ Flap
  BY DEF ProtocolEvent, onTimeout, reconnectToVpn, addSitesRoutes,
         startTrafficProbe, onProbeFinished, probeDeadline, backendFailure,
         daemonDisconnected, lateDisconnected, managementConnected,
         managementReconnecting, managementExiting, managementFatal,
         openVpnFinished, tun2socksReady, tun2socksBusy, startTun2Socks,
         tun2socksFinished, misheardReport
<1> QED BY <1>1 DEF Flap

\* Timers and what reaches the protocol from outside.
LEMMA OutsideKeeps ==
    ASSUME StackInv, Timeout \/ Outside \/ Misheard
    PROVE  StackInv'
<1>1. VpnInv /\ posted \in Seq(Command) /\ events \in Nat
  BY DEF StackInv, ControllerInv, ControllerTypeOK, VpnInv
<1>2. \/ /\ onTimeout \/ ProtocolEvent \/ reconnectToVpn \/ addSitesRoutes
         /\ Unseen
      \/ misheardReport /\ Misheard
  BY DEF Timeout, Outside, Misheard
<1>3. VpnInv'
  BY <1>1, <1>2, TimeoutKeeps, ProtocolEventKeeps, ReconnectKeeps,
     SiteRoutesKeep, WireguardEventKeeps
<1>4. events' \in Nat
  BY <1>1, <1>2, EventsCounted
<1>5. /\ posted' \in Seq(Command) /\ UNCHANGED <<besidesCalm, connectedVia>>
      /\ calm' \in {calm, FALSE}
  BY <1>1, <1>2, BesidesCalm DEF Unseen
<1> QED BY <1>3, <1>4, <1>5, VpnStepKeeps

-----------------------------------------------------------------------------
(* Steps of the user-interface thread and of the user. *)

\* The VPN thread is left alone.
LEMMA VpnUntouched ==
    ASSUME StackInv, UNCHANGED vpnVars
    PROVE  VpnOK(vpn)' /\ events' \in Nat /\ connectedVia' \in Attempt
BY DEF StackInv, vpnVars, VpnOK, RoutesOK, TunnelStates, VpnState

\* Whether anything is still under way is a yes or a no.
LEMMA RestIsBoolean ==
    ASSUME NEW pending
    PROVE  AtRest(pending) \in BOOLEAN
BY DEF AtRest

\* The event loop of the user-interface thread takes one event.
LEMMA UiTurnKeeps ==
    ASSUME StackInv, UiTurn
    PROVE  StackInv'
<1>1. ControllerInv /\ inbox \in Seq(Event)
  BY DEF StackInv, ControllerInv, ControllerTypeOK
<1>2. CASE DeliverState
  <2>1. /\ inbox # <<>> /\ Head(inbox).type = "state"
        /\ Head(inbox).state \in ConnectionState
    BY <1>1, <1>2, FirstEvent DEF DeliverState, NextEvent
  <2>2. \E code : HandleConnectionState(Head(inbox).state, code)
    BY <1>2 DEF DeliverState
  <2>3. ControllerInv'
    BY <1>1, <2>1, <2>2, HandleConnectionStateKeeps
  <2>4. connectedVia' \in Attempt
    BY <1>1, <1>2, <2>1, SignalNamesAttempt DEF DeliverState, StackInv
  <2>5. VpnOK(vpn)' /\ events' \in Nat
    BY <1>2
    DEF DeliverState, StackInv, VpnOK, RoutesOK, TunnelStates, VpnState
  <2> QED BY <2>3, <2>4, <2>5 DEF StackInv
<1>3. CASE DeliverError
  <2>1. inbox # <<>> /\ Head(inbox).code \in ErrorCode
    BY <1>1, <1>3, FirstEvent DEF DeliverError, NextEvent
  <2>2. ControllerInv'
    BY <1>1, <1>3, <2>1, HandleProtocolErrorKeeps DEF DeliverError
  <2> QED BY <1>3, <2>2, VpnUntouched DEF DeliverError, StackInv
<1>4. CASE DeliverOpen
  <2>1. inbox # <<>> /\ AtRest(Tail(inbox)) \in BOOLEAN
    BY <1>4, RestIsBoolean DEF DeliverOpen, NextEvent
  <2>2. ControllerInv'
    BY <1>1, <1>4, <2>1, ReopenKeeps DEF DeliverOpen
  <2> QED BY <1>4, <2>2, VpnUntouched DEF DeliverOpen, StackInv
<1> QED BY <1>2, <1>3, <1>4 DEF UiTurn

\* A validation ends, the time budget runs out, the user asks for something.
LEMMA RequestKeeps ==
    ASSUME StackInv, Validation \/ Budget \/ User
    PROVE  StackInv'
<1>1. ControllerInv /\ AtRest(inbox) \in BOOLEAN
  BY RestIsBoolean DEF StackInv
<1>2. UNCHANGED vpnVars
  BY DEF Validation, Budget, User
<1>3. ControllerInv'
  <2>1. CASE Validation
    BY <1>1, <2>1, ValidationKeeps DEF Validation
  <2>2. CASE Budget
    BY <1>1, <2>2, BudgetFiresKeeps DEF Budget
  <2>3. CASE User
    BY <1>1, <2>3, UserKeeps DEF User, OpenClick, CloseClick
  <2> QED BY <2>1, <2>2, <2>3
<1> QED BY <1>2, <1>3, VpnUntouched DEF StackInv

-----------------------------------------------------------------------------
(* The composition. *)

\* Both constructors establish the invariant.
LEMMA StackInitInv ==
    Init => StackInv
<1>1. NoAttempt \in Attempt
  BY ServersAssumption DEF NoAttempt, Attempt, Servers
<1> SUFFICES ASSUME Init PROVE StackInv
  OBVIOUS
<1>2. ControllerInv
  BY ControllerInitInv DEF Init
<1>3. VpnOK(vpn)
  BY VpnInitOK DEF Init
<1>4. events = 0 /\ connectedVia = NoAttempt
  BY DEF Init, VpnInit
<1> QED BY <1>1, <1>2, <1>3, <1>4 DEF StackInv

\* Every step keeps it.
LEMMA StackStepKeeps ==
    ASSUME StackInv, [Next]_vars
    PROVE  StackInv'
<1>1. CASE UNCHANGED vars
  <2>1. inbox' \in Seq(Event) /\ posted' \in Seq(Command)
    BY <1>1 DEF StackInv, ControllerInv, ControllerTypeOK, vars
  <2>2. VpnOK(vpn)' /\ events' \in Nat
    BY <1>1, VpnUntouched DEF vars, vpnVars
  <2> QED BY <1>1, <2>1, <2>2, BesidesCalm, VpnStepKeeps DEF vars, VpnInv
<1>2. CASE Next
  BY <1>2, UiTurnKeeps, RequestKeeps, VpnTurnKeeps, OutsideKeeps DEF Next
<1> QED BY <1>1, <1>2

\* The inductive invariant of the composition holds throughout.
THEOREM StackInvariant == Spec => []StackInv
<1>1. StackInv /\ [Next]_vars => StackInv'
  BY StackStepKeeps
<1> QED BY <1>1, StackInitInv, PTL DEF Spec

\* Both threads' state and the queues between them keep their types.
THEOREM StackTyped == Spec => []TypeOK
<1>1. StackInv => TypeOK
  BY DEF StackInv, ControllerInv, VpnOK, TypeOK
<1> QED BY <1>1, StackInvariant, PTL

\* No opening launches a server twice or more than kMaxAttempts servers, with
\* the VPN thread the program has.
THEOREM StackFailoverBounded == Spec => []FailoverBounded
<1>1. StackInv => FailoverBounded
  BY DEF StackInv, ControllerInv
<1> QED BY <1>1, StackInvariant, PTL

\* Routes for the tunnel's DNS servers do not outlive the tunnel, for any
\* protocols, any order of commands and events and any default server
\* (VpnConnection::onConnectionStateChanged).
THEOREM DnsRoutesFollowTunnel == Spec => []DnsRoutesOnlyWithTunnel
<1>1. StackInv => DnsRoutesOnlyWithTunnel
  BY DEF StackInv, VpnOK, RoutesOK, TunnelStates, DnsRoutesOnlyWithTunnel
<1> QED BY <1>1, StackInvariant, PTL

-----------------------------------------------------------------------------
(* The screen and the state of VpnConnection. The user-interface thread      *)
(* shows the signals in the order they were emitted, except those it ignores *)
(* while it switches to a backup server; then a request to connect, or its   *)
(* "Connecting", is still on the way.                                        *)

ConnectPending == \E i \in 1..Len(posted) : posted[i].op = "connect"

Numbered ==
    \A i \in 1..Len(posted) :
        posted[i].op = "connect" => posted[i].attempt.no > 0

SwitchHeard == switching => ConnectPending \/ Mentions(inbox, "Connecting")

\* Unless a connection is still to be made, the screen will show the state
\* VpnConnection is in once it has read what was signalled.
InStep ==
    (vpn.attempt.no > 0 /\ ~ConnectPending) => Tells(inbox, ui, vpn.state)

\* Nobody is connected before the first attempt.
NotYetUp ==
    vpn.attempt.no = 0 => /\ ui # "Connected" /\ ~Mentions(inbox, "Connected")
                          /\ ~vpn.timer

ScreenInv == Truthful /\ Numbered /\ SwitchHeard /\ InStep /\ NotYetUp

\* What is left to hear once the first event was read.
LEMMA HeadTold ==
    ASSUME NEW S, NEW q \in Seq(S), q # <<>>
    PROVE  /\ Head(q).type = "state" =>
                \A u, s : Tells(q, u, s) => Tells(Tail(q), Head(q).state, s)
           /\ Head(q).type # "state" =>
                \A u, s : Tells(q, u, s) => Tells(Tail(q), u, s)
           /\ \A s : Mentions(q, s) <=> \/ Mentions(Tail(q), s)
                                       \/ (Head(q).type = "state" /\ Head(q).state = s)
           /\ \A u, v, s, t : Tells(q, u, s) /\ Mentions(Tail(q), t)
                                => Tells(Tail(q), v, s)
<1> DEFINE w == Tail(q)
           h == Head(q)
<1>1. /\ Len(q) \in Nat /\ Len(q) > 0 /\ h = q[1]
      /\ w \in Seq(S) /\ Len(w) = Len(q) - 1
      /\ \A i \in 1..Len(w) : w[i] = q[i + 1]
  BY HeadTailProperties, LenProperties
<1>2. Len(w) \in Nat
  BY <1>1
<1>3. \A j \in 2..Len(q) : j - 1 \in 1..Len(w) /\ w[j - 1] = q[j]
  <2>1. ASSUME NEW j \in 2..Len(q) PROVE j - 1 \in 1..Len(w) /\ w[j - 1] = q[j]
    <3>1. j - 1 \in 1..Len(w) /\ (j - 1) + 1 = j
      BY <1>1
    <3> QED BY <1>1, <3>1
  <2> QED BY <2>1
<1> HIDE DEF w, h
<1>4. ASSUME NEW s PROVE Mentions(q, s) <=> \/ Mentions(w, s)
                                            \/ (h.type = "state" /\ h.state = s)
  <2>1. ASSUME Mentions(w, s) PROVE Mentions(q, s)
    <3>1. PICK i \in 1..Len(w) : Says(w, i, s)
      BY <2>1 DEF Mentions
    <3>2. i + 1 \in 1..Len(q) /\ Says(q, i + 1, s)
      BY <1>1, <3>1 DEF Says
    <3> QED BY <3>2 DEF Mentions
  <2>2. ASSUME h.type = "state", h.state = s PROVE Mentions(q, s)
    BY <1>1, <2>2 DEF Mentions, Says
  <2>3. ASSUME Mentions(q, s)
        PROVE  Mentions(w, s) \/ (h.type = "state" /\ h.state = s)
    <3>1. PICK j \in 1..Len(q) : Says(q, j, s)
      BY <2>3 DEF Mentions
    <3>2. CASE j = 1
      BY <1>1, <3>1, <3>2 DEF Says
    <3>3. CASE j \in 2..Len(q)
      BY <1>3, <3>1, <3>3 DEF Says, Mentions
    <3> QED BY <1>1, <3>2, <3>3
  <2> QED BY <2>1, <2>2, <2>3
<1>5. ASSUME NEW i \in 2..Len(q), NEW s, Says(q, i, s),
             \A j \in (i + 1)..Len(q) : q[j].type # "state"
      PROVE  Heard(w, s)
  <2>1. i - 1 \in 1..Len(w) /\ Says(w, i - 1, s)
    BY <1>3, <1>5 DEF Says
  <2>2. ASSUME NEW j \in ((i - 1) + 1)..Len(w) PROVE w[j].type # "state"
    <3>1. j + 1 \in (i + 1)..Len(q) /\ j \in 1..Len(w)
      BY <1>1
    <3> QED BY <1>1, <1>5, <3>1
  <2> QED BY <2>1, <2>2 DEF Heard
<1>6. ASSUME \A j \in 2..Len(q) : q[j].type # "state"
      PROVE  Mute(w)
  <2>1. ASSUME NEW j \in 1..Len(w) PROVE w[j].type # "state"
    <3>1. j + 1 \in 2..Len(q)
      BY <1>1
    <3> QED BY <1>1, <1>6, <3>1
  <2> QED BY <2>1 DEF Mute
<1>7. ASSUME NEW u, NEW s, Tells(q, u, s), h.type = "state"
      PROVE  Tells(w, h.state, s)
  <2>1. ~Mute(q)
    BY <1>1, <1>7 DEF Mute
  <2>2. PICK i \in 1..Len(q) :
           Says(q, i, s) /\ \A j \in (i + 1)..Len(q) : q[j].type # "state"
    BY <1>7, <2>1 DEF Tells, Heard
  <2>3. CASE i = 1
    <3>1. Mute(w) /\ h.state = s
      BY <1>1, <1>6, <2>2, <2>3 DEF Says
    <3> QED BY <3>1 DEF Tells
  <2>4. CASE i \in 2..Len(q)
    BY <1>5, <2>2, <2>4 DEF Tells
  <2> QED BY <1>1, <2>3, <2>4
<1>8. ASSUME NEW u, NEW s, Tells(q, u, s), h.type # "state"
      PROVE  Tells(w, u, s)
  <2>1. CASE Heard(q, s)
    <3>1. PICK i \in 1..Len(q) :
             Says(q, i, s) /\ \A j \in (i + 1)..Len(q) : q[j].type # "state"
      BY <2>1 DEF Heard
    <3>2. i # 1
      BY <1>1, <1>8, <3>1 DEF Says
    <3>3. i \in 2..Len(q)
      BY <1>1, <3>2
    <3> QED BY <1>5, <3>1, <3>3 DEF Tells
  <2>2. CASE Mute(q) /\ u = s
    BY <1>1, <1>6, <2>2 DEF Mute, Tells
  <2> QED BY <1>8, <2>1, <2>2 DEF Tells
<1>9. ASSUME NEW u, NEW v, NEW s, NEW t, Tells(q, u, s), Mentions(w, t)
      PROVE  Tells(w, v, s)
  <2>1. PICK k \in 1..Len(w) : Says(w, k, t)
    BY <1>9 DEF Mentions
  <2>2. k + 1 \in 2..Len(q) /\ q[k + 1].type = "state"
    BY <1>1, <2>1 DEF Says
  <2>3. ~Mute(q)
    BY <1>1, <2>2 DEF Mute
  <2>4. PICK i \in 1..Len(q) :
           Says(q, i, s) /\ \A j \in (i + 1)..Len(q) : q[j].type # "state"
    BY <1>9, <2>3 DEF Tells, Heard
  <2>5. i \in 2..Len(q)
    BY <1>1, <2>2, <2>4
  <2> QED BY <1>5, <2>4, <2>5 DEF Tells
<1>10. h.type = "state" => \A u, s : Tells(q, u, s) => Tells(w, h.state, s)
  BY <1>7
<1>11. h.type # "state" => \A u, s : Tells(q, u, s) => Tells(w, u, s)
  BY <1>8
<1>12. \A u, v, s, t : Tells(q, u, s) /\ Mentions(w, t) => Tells(w, v, s)
  BY <1>9
<1>13. \A s : Mentions(q, s) <=> \/ Mentions(w, s)
                                \/ (h.type = "state" /\ h.state = s)
  BY <1>4
<1> QED BY <1>10, <1>11, <1>12, <1>13, Zenon DEF w, h

\* A request at the end of the VPN thread's queue.
LEMMA RequestPending ==
    ASSUME posted \in Seq(Command), NEW e \in Command,
           posted' = Append(posted, e)
    PROVE  /\ ConnectPending' <=> ConnectPending \/ e.op = "connect"
           /\ Numbered /\ (e.op = "connect" => e.attempt.no > 0) => Numbered'
<1>1. /\ Len(posted') = Len(posted) + 1 /\ posted'[Len(posted) + 1] = e
      /\ Len(posted) \in Nat
      /\ \A i \in 1..Len(posted) : posted'[i] = posted[i]
  BY AppendProperties, LenProperties
<1>2. ConnectPending' <=> ConnectPending \/ e.op = "connect"
  BY <1>1 DEF ConnectPending
<1>3. Numbered /\ (e.op = "connect" => e.attempt.no > 0) => Numbered'
  BY <1>1 DEF Numbered
<1> QED BY <1>2, <1>3

\* Requests change the queue of the VPN thread at its end only.
Asked ==
    \/ UNCHANGED posted
    \/ \E e \in Command : /\ posted' = Append(posted, e)
                          /\ e.op = "connect" => e.attempt.no > 0

LEMMA AskedKeeps ==
    ASSUME posted \in Seq(Command), Numbered, Asked
    PROVE  Numbered' /\ (ConnectPending => ConnectPending')
BY RequestPending DEF Asked, Numbered, ConnectPending

\* The first event of the inbox was read; a pending reconnect may have been
\* queued behind it.
ReadFirst ==
    /\ inbox # <<>>
    /\ inbox' = Tail(inbox) \/ inbox' = Append(Tail(inbox), OpenInvocation)

LEMMA FirstRead ==
    ASSUME inbox \in Seq(Event), ReadFirst
    PROVE  /\ Head(inbox).type = "state" =>
                \A u, s : Tells(inbox, u, s) => Tells(inbox', Head(inbox).state, s)
           /\ Head(inbox).type # "state" =>
                \A u, s : Tells(inbox, u, s) => Tells(inbox', u, s)
           /\ \A s : Mentions(inbox, s) <=>
                \/ Mentions(inbox', s)
                \/ (Head(inbox).type = "state" /\ Head(inbox).state = s)
           /\ \A u, v, s, t : Tells(inbox, u, s) /\ Mentions(inbox', t)
                                => Tells(inbox', v, s)
<1> DEFINE w == Tail(inbox)
<1>1. /\ Head(inbox).type = "state" =>
            \A u, s : Tells(inbox, u, s) => Tells(w, Head(inbox).state, s)
      /\ Head(inbox).type # "state" =>
            \A u, s : Tells(inbox, u, s) => Tells(w, u, s)
      /\ \A s : Mentions(inbox, s) <=>
            \/ Mentions(w, s)
            \/ (Head(inbox).type = "state" /\ Head(inbox).state = s)
      /\ \A u, v, s, t : Tells(inbox, u, s) /\ Mentions(w, t)
                           => Tells(w, v, s)
  <2>1. inbox \in Seq(Event) /\ inbox # <<>>
    BY DEF ReadFirst
  <2> QED BY <2>1, HeadTold, Zenon
<1>2. w \in Seq(Event) /\ OpenInvocation \in Event
      /\ OpenInvocation.type # "state"
  BY HeadTailProperties DEF ReadFirst, Event, OpenInvocation
<1> HIDE DEF w
<1>3. CASE inbox' = w
  BY <1>1, <1>3
<1>4. CASE inbox' = Append(w, OpenInvocation)
  <2>1. /\ \A u, s : Tells(w, u, s) => Tells(inbox', u, s)
        /\ \A s : Mentions(inbox', s) <=> Mentions(w, s)
    BY <1>2, <1>4, OtherUnheard
  <2> QED BY <1>1, <2>1
<1> QED BY <1>3, <1>4 DEF ReadFirst, w

-----------------------------------------------------------------------------
(* Steps of the user-interface thread. *)

\* A step that reads no state signal and shows nothing new.
LEMMA SameScreen ==
    ASSUME StackInv, ScreenInv, UNCHANGED vpn, Asked, ui' = ui,
           switching' => switching,
           inbox' = inbox \/ (ReadFirst /\ Head(inbox).type # "state")
    PROVE  ScreenInv'
<1>1. posted \in Seq(Command) /\ inbox \in Seq(Event)
  BY DEF StackInv, ControllerInv, ControllerTypeOK
<1>2. Numbered' /\ (ConnectPending => ConnectPending')
  BY <1>1, AskedKeeps DEF ScreenInv
<1>3. /\ \A u, s : Tells(inbox, u, s) => Tells(inbox', u, s)
      /\ \A s : Mentions(inbox, s) <=> Mentions(inbox', s)
  BY <1>1, FirstRead
<1>4. Truthful'
  BY DEF ScreenInv, Truthful
<1>5. SwitchHeard' /\ InStep' /\ NotYetUp'
  BY <1>2, <1>3 DEF ScreenInv, SwitchHeard, InStep, NotYetUp
<1> QED BY <1>2, <1>4, <1>5 DEF ScreenInv

\* A state signal is shown and no switch is under way any more.
LEMMA SignalShown ==
    ASSUME StackInv, ScreenInv, UNCHANGED vpn, Asked, ReadFirst,
           Head(inbox).type = "state", ui' = Head(inbox).state, ~switching'
    PROVE  ScreenInv'
<1>1. posted \in Seq(Command) /\ inbox \in Seq(Event)
  BY DEF StackInv, ControllerInv, ControllerTypeOK
<1>2. Numbered' /\ (ConnectPending => ConnectPending')
  BY <1>1, AskedKeeps DEF ScreenInv
<1>3. /\ \A u, s : Tells(inbox, u, s) => Tells(inbox', Head(inbox).state, s)
      /\ \A s : Mentions(inbox', s) \/ Head(inbox).state = s => Mentions(inbox, s)
  BY <1>1, FirstRead
<1>4. Truthful'
  BY DEF ScreenInv, Truthful
<1>5. SwitchHeard' /\ InStep'
  BY <1>2, <1>3 DEF ScreenInv, SwitchHeard, InStep
<1>6. NotYetUp'
  BY <1>3 DEF ScreenInv, NotYetUp
<1> QED BY <1>2, <1>4, <1>5, <1>6 DEF ScreenInv

\* The tail of a failed attempt is ignored while a backup is switched to.
LEMMA SignalIgnored ==
    ASSUME StackInv, ScreenInv, UNCHANGED <<vpn, posted, ui, switching>>,
           ReadFirst, Head(inbox).type = "state",
           Head(inbox).state # "Connecting", switching
    PROVE  ScreenInv'
<1>1. posted \in Seq(Command) /\ inbox \in Seq(Event)
  BY DEF StackInv, ControllerInv, ControllerTypeOK
<1>2. /\ \A s : Mentions(inbox', s) => Mentions(inbox, s)
      /\ Mentions(inbox, "Connecting") => Mentions(inbox', "Connecting")
      /\ \A u, v, s, t : Tells(inbox, u, s) /\ Mentions(inbox', t)
                           => Tells(inbox', v, s)
  BY <1>1, FirstRead
<1>3. Numbered' /\ Truthful' /\ (ConnectPending' <=> ConnectPending)
  BY DEF ScreenInv, Numbered, Truthful, ConnectPending
<1>4. SwitchHeard' /\ NotYetUp'
  BY <1>2, <1>3 DEF ScreenInv, SwitchHeard, NotYetUp
<1>5. InStep'
  BY <1>2, <1>3 DEF ScreenInv, SwitchHeard, InStep
<1> QED BY <1>3, <1>4, <1>5 DEF ScreenInv

\* A backup server is launched; the screen says "Connecting" ahead of it.
LEMMA BackupShown ==
    ASSUME StackInv, ScreenInv, UNCHANGED vpn, ReadFirst,
           Head(inbox).type = "state", ui' = "Connecting",
           NEW e \in Command, e.op = "connect", e.attempt.no > 0,
           posted' = Append(posted, e)
    PROVE  ScreenInv'
<1>1. posted \in Seq(Command) /\ inbox \in Seq(Event)
  BY DEF StackInv, ControllerInv, ControllerTypeOK
<1>2. Numbered' /\ ConnectPending'
  BY <1>1, RequestPending DEF ScreenInv
<1>3. \A s : Mentions(inbox', s) => Mentions(inbox, s)
  BY <1>1, FirstRead
<1>4. Truthful'
  BY DEF ScreenInv, Truthful
<1>5. SwitchHeard' /\ InStep' /\ NotYetUp'
  BY <1>2, <1>3 DEF ScreenInv, SwitchHeard, InStep, NotYetUp
<1> QED BY <1>2, <1>4, <1>5 DEF ScreenInv

\* What this thread asks for.
LEMMA Requests ==
    ASSUME StackInv
    PROVE  /\ \A s \in Servers : /\ Launch(s) \in Command
                                 /\ Launch(s).op = "connect"
                                 /\ Launch(s).attempt.no > 0
           /\ Disconnect \in Command /\ Disconnect.op # "connect"
           /\ \A s \in RequestedState : /\ SetState(s) \in Command
                                        /\ SetState(s).op # "connect"
<1>1. launches \in Nat
  BY DEF StackInv, ControllerInv, ControllerTypeOK
<1>2. ASSUME NEW s \in Servers
      PROVE  /\ Launch(s) \in Command /\ Launch(s).op = "connect"
             /\ Launch(s).attempt.no > 0
  BY <1>1 DEF Launch, Connect, Command, Attempt
<1>3. Disconnect \in Command /\ Disconnect.op # "connect"
  BY DEF Disconnect, Command
<1>4. ASSUME NEW s \in RequestedState
      PROVE  SetState(s) \in Command /\ SetState(s).op # "connect"
  BY DEF SetState, Command
<1> QED BY <1>2, <1>3, <1>4

\* An error shown as such asks for "Disconnected".
LEMMA ErrorAsked ==
    ASSUME StackInv, NEW s, posted' = posted \o ErrorReply(s)
    PROVE  Asked
<1>1. posted \in Seq(Command) /\ SetState("Disconnected") \in Command
      /\ SetState("Disconnected").op # "connect"
  BY Requests DEF StackInv, ControllerInv, ControllerTypeOK, RequestedState
<1>2. CASE s \in {"Error", "Unknown"}
  BY <1>1, <1>2, AppendIsConcat DEF ErrorReply, Asked
<1>3. CASE s \notin {"Error", "Unknown"}
  BY <1>1, <1>3, ConcatEmptySeq DEF ErrorReply, Asked
<1> QED BY <1>2, <1>3

\* handleConnectionState
LEMMA DeliverStateShown ==
    ASSUME StackInv, ScreenInv, DeliverState
    PROVE  ScreenInv'
<1> DEFINE s == Head(inbox).state
<1>1. /\ inbox # <<>> /\ Head(inbox).type = "state" /\ UNCHANGED vpn
      /\ \E code : HandleConnectionState(s, code)
  BY DEF DeliverState, NextEvent
<1>2. PICK code : HandleConnectionState(s, code)
  BY <1>1
<1> HIDE DEF s
<1>3. ASSUME NEW t, Show(t)
      PROVE  ReadFirst /\ ui' = t
  BY <1>1, <1>3 DEF Show, ReadFirst
<1>4. CASE AttemptStarted(s)
  <2>1. Asked /\ ReadFirst /\ ui' = s /\ ~switching'
    BY <1>3, <1>4 DEF AttemptStarted, Asked
  <2> QED BY <1>1, <2>1, SignalShown DEF s
<1>5. CASE TailIgnored(s)
  <2>1. /\ ReadFirst /\ switching /\ s # "Connecting"
        /\ UNCHANGED <<posted, ui, switching>>
    BY <1>1, <1>5
    DEF TailIgnored, Ignored, ReadFirst, controllerVars, failoverVars, uiVars
  <2> QED BY <1>1, <2>1, SignalIgnored DEF s
<1>6. CASE TunnelUp(s)
  <2>1. Asked /\ ReadFirst /\ ui' = s /\ ~switching'
    BY <1>3, <1>6 DEF TunnelUp, finishFailover, Asked
  <2> QED BY <1>1, <2>1, SignalShown DEF s
<1>7. CASE GiveUp(s)
  <2>1. ReadFirst /\ ui' = s /\ ~switching' /\ posted' = posted \o ErrorReply(s)
    BY <1>3, <1>7 DEF GiveUp, finishFailover
  <2>2. Asked
    BY <2>1, ErrorAsked
  <2> QED BY <1>1, <2>1, <2>2, SignalShown DEF s
<1>8. CASE SwitchToBackup(s, code)
  <2>1. ReadFirst /\ ui' = "Connecting" /\ tryNextCandidate
    BY <1>3, <1>8 DEF SwitchToBackup
  <2>2. PICK k \in Launchable : posted' = Append(posted, Launch(queue[k]))
    BY <2>1 DEF tryNextCandidate
  <2>3. queue[k] \in Servers
    <3>1. queue \in Seq(Servers) /\ index \in 0..Len(queue)
      BY DEF StackInv, ControllerInv, ControllerTypeOK
    <3>2. k \in 1..Len(queue)
      BY <2>2, <3>1 DEF Launchable
    <3> QED BY <3>1, <3>2, ElementOfSeq
  <2>4. /\ Launch(queue[k]) \in Command /\ Launch(queue[k]).op = "connect"
        /\ Launch(queue[k]).attempt.no > 0
    BY <2>3, Requests
  <2> QED BY <1>1, <2>1, <2>2, <2>4, BackupShown
<1> QED BY <1>2, <1>4, <1>5, <1>6, <1>7, <1>8
        DEF HandleConnectionState, SubscriptionFailure, AttemptEnded

\* openConnection shows nothing by itself.
LEMMA OpeningAsks ==
    ASSUME StackInv, NEW rest, openConnection(rest)
    PROVE  Asked /\ ui' = ui /\ ~switching'
<1>1. defaultServer \in Servers /\ "Disconnected" \in RequestedState
  BY DEF StackInv, ControllerInv, ControllerTypeOK, RequestedState
<1>2. Asked
  BY <1>1, Requests DEF openConnection, notifyConnectionBlocked, Asked
<1> QED BY <1>2 DEF openConnection, startFailover

\* Everything this thread does.
LEMMA UiShows ==
    ASSUME StackInv, ScreenInv, UiTurn \/ Validation \/ Budget \/ User
    PROVE  ScreenInv'
<1>1. "Preparing" \in RequestedState /\ "Disconnected" \in RequestedState
  BY DEF RequestedState
<1>2. CASE DeliverState
  BY <1>2, DeliverStateShown
<1>3. CASE DeliverError
  <2>1. /\ ReadFirst /\ Head(inbox).type # "state" /\ Asked /\ ui' = ui
        /\ switching' = switching /\ UNCHANGED vpn
    BY <1>3
    DEF DeliverError, NextEvent, HandleProtocolError, ReadFirst, Asked,
        failoverVars, uiVars, vpnVars
  <2> QED BY <2>1, SameScreen
<1>4. CASE DeliverOpen
  <2>1. /\ ReadFirst /\ Head(inbox).type # "state" /\ UNCHANGED vpn
        /\ openConnection(AtRest(Tail(inbox)))
    BY <1>4 DEF DeliverOpen, NextEvent, Reopen, ReadFirst, vpnVars
  <2> QED BY <2>1, OpeningAsks, SameScreen
<1>5. CASE Budget
  <2>1. /\ inbox' = inbox /\ Asked /\ ui' = ui /\ switching' = switching
        /\ UNCHANGED vpn
    BY <1>5 DEF Budget, BudgetFires, Asked, uiVars, vpnVars
  <2> QED BY <2>1, SameScreen
<1>6. ASSUME NEW rest, openConnection(rest), UNCHANGED inbox, UNCHANGED vpn
      PROVE  ScreenInv'
  BY <1>6, OpeningAsks, SameScreen
<1>7. ASSUME NEW s \in RequestedState, RequestState(s), UNCHANGED <<inbox, ui>>,
             UNCHANGED vpn
      PROVE  ScreenInv'
  <2>1. Asked /\ switching' = switching
    BY <1>7, Requests DEF RequestState, Asked, failoverVars
  <2> QED BY <1>7, <2>1, SameScreen
<1>8. ASSUME closeConnection, UNCHANGED vpn
      PROVE  ScreenInv'
  <2>1. Asked /\ switching' = switching /\ ui' = ui /\ inbox' = inbox
    BY <1>8, Requests DEF closeConnection, Asked, failoverVars
  <2> QED BY <1>8, <2>1, SameScreen
<1>9. CASE Validation
  BY <1>1, <1>6, <1>7, <1>9
  DEF Validation, ConfigValidated, ConfigRefused, vpnVars
<1>10. CASE User
  <2>1. UNCHANGED vpn
    BY <1>10 DEF User, vpnVars
  <2>2. CASE OpenClick
    BY <1>1, <1>6, <1>7, <2>1, <2>2
    DEF OpenClick, ToggleOn, ToggleBlocked, ReconnectOpening
  <2>3. CASE CloseClick
    BY <1>8, <2>1, <2>3
    DEF CloseClick, ToggleOff, switchProto, ReconnectClosing
  <2>4. CASE \E s \in Servers : SetDefaultServer(s)
    <3>1. Asked /\ switching' = switching /\ ui' = ui /\ inbox' = inbox
      BY <2>4 DEF SetDefaultServer, Asked, failoverVars
    <3> QED BY <2>1, <3>1, SameScreen
  <2> QED BY <1>10, <2>2, <2>3, <2>4 DEF User
<1> QED BY <1>2, <1>3, <1>4, <1>5, <1>9, <1>10 DEF UiTurn

-----------------------------------------------------------------------------
(* Steps of the VPN thread. *)

\* The first request was taken from the queue.
LEMMA FirstTaken ==
    ASSUME posted \in Seq(Command), posted # <<>>, posted' = Tail(posted),
           Numbered
    PROVE  /\ Numbered'
           /\ Head(posted).op = "connect" => Head(posted).attempt.no > 0
           /\ Head(posted).op # "connect" => (ConnectPending => ConnectPending')
<1>1. /\ Len(posted) \in Nat /\ Len(posted) > 0 /\ Head(posted) = posted[1]
      /\ Len(posted') = Len(posted) - 1
      /\ \A i \in 1..Len(posted') : posted'[i] = posted[i + 1]
  BY HeadTailProperties, LenProperties
<1>2. Head(posted).op = "connect" => Head(posted).attempt.no > 0
  BY <1>1 DEF Numbered
<1>3. ASSUME NEW i \in 1..Len(posted'), posted'[i].op = "connect"
      PROVE  posted'[i].attempt.no > 0
  <2>1. i + 1 \in 1..Len(posted) /\ posted'[i] = posted[i + 1]
    BY <1>1
  <2> QED BY <1>3, <2>1 DEF Numbered
<1>4. ASSUME Head(posted).op # "connect", ConnectPending
      PROVE  ConnectPending'
  <2>1. PICK i \in 1..Len(posted) : posted[i].op = "connect"
    BY <1>4 DEF ConnectPending
  <2>2. i - 1 \in 1..Len(posted') /\ (i - 1) + 1 = i
    BY <1>1, <1>4, <2>1
  <2>3. posted'[i - 1] = posted[i]
    BY <1>1, <2>2
  <2> QED BY <2>1, <2>2, <2>3 DEF ConnectPending
<1> QED BY <1>2, <1>3, <1>4 DEF Numbered

\* A step of the VPN thread that makes no new attempt and hands over what it
\* has to tell.
LEMMA RelayedKeeps ==
    ASSUME ScreenInv, Truthful', Relayed, Numbered', UNCHANGED besidesCalm,
           ConnectPending => ConnectPending', vpn'.attempt = vpn.attempt,
           vpn.attempt.no = 0 =>
              /\ ~vpn'.timer
              /\ Mentions(inbox', "Connected") => Mentions(inbox, "Connected")
    PROVE  ScreenInv'
<1>1. ui' = ui /\ switching' = switching
  BY DEF besidesCalm, failoverVars, uiVars
<1>2. SwitchHeard'
  BY <1>1 DEF ScreenInv, SwitchHeard, Relayed
<1>3. InStep'
  BY <1>1 DEF ScreenInv, InStep, Relayed
<1>4. NotYetUp'
  BY <1>1 DEF ScreenInv, NotYetUp
<1> QED BY <1>2, <1>3, <1>4 DEF ScreenInv

\* Commands and events.
LEMMA VpnShows ==
    ASSUME StackInv, ScreenInv, VpnTurn \/ Timeout \/ Outside \/ Misheard
    PROVE  ScreenInv'
<1>1. /\ posted \in Seq(Command) /\ inbox \in Seq(Event)
      /\ VpnInv /\ Truthful /\ Numbered
  BY DEF StackInv, ControllerInv, ControllerTypeOK, VpnInv, ScreenInv
<1>2. ASSUME TakeCommand, posted # <<>>
      PROVE  /\ Numbered' /\ UNCHANGED controllerVars
             /\ Head(posted).op = "connect" => Head(posted).attempt.no > 0
             /\ Head(posted).op # "connect" =>
                   (ConnectPending => ConnectPending')
  BY <1>1, <1>2, FirstTaken DEF TakeCommand
<1>3. CASE DeliverConnect
  <2> DEFINE a == Head(posted).attempt
  <2>1. /\ a \in Attempt /\ a.no > 0 /\ connectToVpn(a) /\ Numbered'
        /\ UNCHANGED controllerVars
    BY <1>1, <1>2, <1>3, FirstCommand DEF DeliverConnect
  <2> HIDE DEF a
  <2>2. /\ Truthful' /\ vpn'.attempt = a
        /\ \A u : Tells(inbox', u, vpn'.state)
        /\ Mentions(inbox', "Connecting")
    BY <1>1, <2>1, ConnectTells
  <2>3. vpn'.attempt.no # 0
    BY <2>1, <2>2
  <2> QED BY <2>1, <2>2, <2>3 DEF ScreenInv, SwitchHeard, InStep, NotYetUp
<1>4. CASE DeliverDisconnect
  <2>1. /\ Head(posted).op # "connect" /\ disconnectFromVpn
        /\ TakeCommand /\ posted # <<>>
    BY <1>4 DEF DeliverDisconnect
  <2>2. /\ Truthful' /\ Relayed /\ vpn'.attempt = vpn.attempt
        /\ vpn.attempt.no = 0 =>
              /\ vpn'.timer = vpn.timer
              /\ Mentions(inbox', "Connected") => Mentions(inbox, "Connected")
    BY <1>1, <2>1, DisconnectTells
  <2>3. vpn.attempt.no = 0 => ~vpn.timer
    BY DEF ScreenInv, NotYetUp
  <2> QED BY <1>2, <2>1, <2>2, <2>3, BesidesCalm, RelayedKeeps
<1>5. CASE DeliverSetState
  <2>1. /\ Head(posted).op # "connect" /\ TakeCommand /\ posted # <<>>
        /\ Done(setConnectionState(vpn, Head(posted).state, vpn.attempt))
        /\ Head(posted).op = "set"
    BY <1>5 DEF DeliverSetState
  <2>2. Head(posted).state \in ConnectionState \ Claims
    BY <1>1, <2>1, FirstCommand DEF RequestedState, ConnectionState, Claims
  <2>3. /\ Truthful' /\ Relayed /\ vpn'.attempt = vpn.attempt
        /\ vpn'.timer = vpn.timer
        /\ Mentions(inbox', "Connected") => Mentions(inbox, "Connected")
    BY <1>1, <2>1, <2>2, SetStateTells
  <2>4. vpn.attempt.no = 0 => ~vpn.timer
    BY DEF ScreenInv, NotYetUp
  <2> QED BY <1>2, <2>1, <2>3, <2>4, BesidesCalm, RelayedKeeps
<1>6. CASE Timeout \/ Outside \/ Misheard
  <2>1. /\ \/ onTimeout \/ ProtocolEvent \/ reconnectToVpn \/ addSitesRoutes
           \/ misheardReport
        /\ UNCHANGED besidesCalm /\ UNCHANGED posted
    BY <1>6, BesidesCalm DEF Timeout, Outside, Misheard, Unseen
  <2>2. Truthful' /\ Relayed /\ vpn'.attempt = vpn.attempt
    BY <1>1, <2>1, EventTells
  <2>3. vpn.attempt.no = 0 => ~vpn'.timer /\ inbox' = inbox
    BY <1>1, <2>1, UnmadeSilent DEF ScreenInv, NotYetUp
  <2>4. Numbered' /\ (ConnectPending => ConnectPending')
    BY <1>1, <2>1 DEF Numbered, ConnectPending
  <2> QED BY <2>1, <2>2, <2>3, <2>4, RelayedKeeps
<1> QED BY <1>3, <1>4, <1>5, <1>6 DEF VpnTurn

\* Nothing is under way at the start.
LEMMA ScreenInitInv ==
    Init => ScreenInv
<1> SUFFICES ASSUME Init PROVE ScreenInv
  OBVIOUS
<1>1. Truthful /\ vpn.attempt.no = 0 /\ ~vpn.timer
  BY VpnInitTruthful DEF Init
<1>2. /\ posted = <<>> /\ inbox = <<>> /\ ui = "Disconnected"
      /\ switching = FALSE
  BY DEF Init, ControllerInit
<1> QED BY <1>1, <1>2
        DEF ScreenInv, Numbered, SwitchHeard, InStep, NotYetUp, Mentions

\* Every step keeps the screen in step.
LEMMA ScreenStepKeeps ==
    ASSUME StackInv, ScreenInv, [Next]_vars
    PROVE  ScreenInv'
<1>1. CASE UNCHANGED vars
  <2>1. UNCHANGED <<vpn, posted, inbox, ui, switching>>
    BY <1>1 DEF vars, controllerVars, failoverVars, uiVars
  <2> QED BY <2>1, SameScreen DEF Asked
<1>2. CASE Next
  BY <1>2, UiShows, VpnShows DEF Next
<1> QED BY <1>1, <1>2

\* The invariant that relates the screen to the VPN thread.
THEOREM ScreenInvariant == Spec => [](StackInv /\ ScreenInv)
<1>1. StackInv /\ ScreenInv /\ [Next]_vars => (StackInv /\ ScreenInv)'
  BY StackStepKeeps, ScreenStepKeeps
<1> QED BY <1>1, StackInitInv, ScreenInitInv, PTL DEF Spec

\* With nothing under way between the threads, the screen shows the state
\* VpnConnection is in: no signal is lost, none is shown out of order, and
\* none that was ignored during a switch to a backup server is missed
\* (ConnectionController::handleConnectionState), for any servers and however
\* impatient the user is.
THEOREM ScreenIsCurrent == Spec => []ScreenShowsState
<1>1. ScreenInv => ScreenShowsState
  BY DEF ScreenInv, InStep, ConnectPending, Tells, Heard, Quiescent,
         ScreenShowsState
<1> QED BY <1>1, ScreenInvariant, PTL

\* An idle inbox and queue, read together with the state they leave.
LEMMA QuiescentScreen ==
    ASSUME StackInv, ScreenInv, Quiescent, ui \in Claims
    PROVE  \/ (vpn.state = ui /\ vpn.attempt.no > 0)
           \/ (vpn.kind = "none" /\ ui # "Connected")
<1>1. vpn.attempt.no \in Nat
  BY DEF StackInv, VpnOK, VpnState, Attempt
<1>2. CASE vpn.attempt.no > 0
  BY <1>2
  DEF ScreenInv, InStep, ConnectPending, Tells, Heard, Quiescent
<1>3. CASE vpn.attempt.no = 0
  BY <1>3 DEF ScreenInv, NotYetUp, Truthful, VpnTruth, Made
<1> QED BY <1>1, <1>2, <1>3

\* A screen at "Disconnecting" waits for a process that exits, or has no
\* protocol behind it any more (VpnConnection::disconnectFromVpn,
\* OpenVpnProtocol::stop).
THEOREM DisconnectingEnds == Spec => []DisconnectingCanEnd
<1>1. StackInv /\ ScreenInv => DisconnectingCanEnd
  BY QuiescentScreen
  DEF ScreenInv, Truthful, VpnTruth, Leaving, DisconnectingCanEnd, Claims
<1> QED BY <1>1, ScreenInvariant, PTL

\* With nothing under way between the threads, a screen that says "Connected"
\* has a working protocol behind it, or tun2socks is about to be started again,
\* or the daemon has yet to say that the tunnel is gone (VpnConnection::
\* connectToVpn, disconnectFromVpn, reconnectToVpn), for any servers and events.
THEOREM ConnectedIsBacked == Spec => []ConnectedHasTunnel
<1>1. StackInv /\ ScreenInv => ConnectedHasTunnel
  <2> SUFFICES ASSUME StackInv, ScreenInv, Quiescent, ui = "Connected"
               PROVE  \/ LiveProtocol \/ vpn.retry
                      \/ vpn.kind = "WireGuard" /\ vpn.late
    BY DEF ConnectedHasTunnel
  <2>1. vpn.state = "Connected" /\ vpn.attempt.no > 0
    BY QuiescentScreen DEF Claims
  <2> QED BY <2>1 DEF ScreenInv, Truthful, VpnTruth, Backed, LiveProtocol
<1> QED BY <1>1, ScreenInvariant, PTL

-----------------------------------------------------------------------------
(* An opening that is left alone. What is in the inbox stems from one        *)
(* attempt, the one launched last, but for the tail of the attempt it        *)
(* replaced; and the first "Disconnected" or "Error" of an attempt whose     *)
(* tunnel never came up is the end of it.                                    *)

\* The states of q from position k on lead to i, the first one in A, with
\* none in B on the way.
Final(q, k, A, B, i) ==
    /\ i \in k..Len(q) /\ StateAt(q, i, A)
    /\ \A j \in k..(i - 1) : ~StateAt(q, j, B)

\* When they do, P holds and only states in A follow.
Settles(q, k, A, B, P) ==
    \A i \in k..Len(q) :
        Final(q, k, A, B, i) =>
            /\ P
            /\ \A j \in (i + 1)..Len(q) : q[j].type = "state" => q[j].state \in A

\* All states of p are in A.
Only(p, A) == \A i \in 1..Len(p) : p[i].type = "state" => p[i].state \in A

\* None of them is.
NoneOf(p, A) == \A i \in 1..Len(p) : ~StateAt(p, i, A)

\* Positions in two queues read one after the other.
LEMMA ConcatPositions ==
    ASSUME NEW S, NEW q \in Seq(S), NEW p \in Seq(S)
    PROVE  /\ Len(q) \in Nat /\ Len(p) \in Nat
           /\ Len(q \o p) = Len(q) + Len(p)
           /\ \A i \in 1..Len(q) : (q \o p)[i] = q[i]
           /\ \A i \in (Len(q) + 1)..Len(q \o p) :
                 i - Len(q) \in 1..Len(p) /\ (q \o p)[i] = p[i - Len(q)]
<1>1. /\ Len(q) \in Nat /\ Len(p) \in Nat /\ q \o p \in Seq(S)
      /\ Len(q \o p) = Len(q) + Len(p)
      /\ \A i \in 1..(Len(q) + Len(p)) :
            (q \o p)[i] = IF i <= Len(q) THEN q[i] ELSE p[i - Len(q)]
  BY ConcatProperties, LenProperties
<1>2. ASSUME NEW i \in (Len(q) + 1)..Len(q \o p)
      PROVE  i - Len(q) \in 1..Len(p) /\ (q \o p)[i] = p[i - Len(q)]
  <2>1. i \in 1..(Len(q) + Len(p)) /\ ~(i <= Len(q))
    BY <1>1
  <2> QED BY <1>1, <2>1
<1>3. ASSUME NEW i \in 1..Len(q)
      PROVE  (q \o p)[i] = q[i]
  BY <1>1
<1> QED BY <1>1, <1>2, <1>3

\* More is signalled.
LEMMA SettlesOn ==
    ASSUME NEW S, NEW q \in Seq(S), NEW p \in Seq(S), NEW k \in 1..(Len(q) + 1),
           NEW A, NEW B, NEW P, NEW Q, Settles(q, k, A, B, P),
           \/ (P => Q) /\ Only(p, A) /\ (Q \/ Mute(p))
           \/ ~P /\ (\/ NoneOf(p, A)
                     \/ \E b \in k..Len(q) : StateAt(q, b, B))
    PROVE  Settles(q \o p, k, A, B, Q)
<1> DEFINE w == q \o p
<1>1. /\ Len(q) \in Nat /\ Len(p) \in Nat /\ Len(w) = Len(q) + Len(p)
      /\ \A i \in 1..Len(q) : w[i] = q[i]
      /\ \A i \in (Len(q) + 1)..Len(w) :
            i - Len(q) \in 1..Len(p) /\ w[i] = p[i - Len(q)]
  BY ConcatPositions
<1> HIDE DEF w
<1> SUFFICES ASSUME NEW i \in k..Len(w), Final(w, k, A, B, i)
             PROVE  Q /\ \A j \in (i + 1)..Len(w) :
                              w[j].type = "state" => w[j].state \in A
  BY DEF Settles, w
<1>2. CASE i <= Len(q)
  <2>1. i \in k..Len(q) /\ i \in 1..Len(q)
    BY <1>1, <1>2
  <2>2. \A j \in k..(i - 1) : j \in 1..Len(q)
    BY <2>1, <1>1
  <2>3. Final(q, k, A, B, i)
    BY <1>1, <2>1, <2>2 DEF Final, StateAt
  <2>4. P /\ \A j \in (i + 1)..Len(q) : q[j].type = "state" => q[j].state \in A
    BY <2>1, <2>3 DEF Settles
  <2>5. (P => Q) /\ Only(p, A)
    BY <2>4
  <2>6. ASSUME NEW j \in (i + 1)..Len(w), w[j].type = "state"
        PROVE  w[j].state \in A
    <3>1. CASE j <= Len(q)
      <4>1. j \in (i + 1)..Len(q) /\ j \in 1..Len(q)
        BY <1>1, <2>1, <3>1
      <4> QED BY <1>1, <2>4, <2>6, <4>1
    <3>2. CASE j > Len(q)
      <4>1. j \in (Len(q) + 1)..Len(w)
        BY <1>1, <3>2
      <4> QED BY <1>1, <2>5, <2>6, <4>1 DEF Only
    <3> QED BY <1>1, <3>1, <3>2
  <2> QED BY <2>4, <2>5, <2>6
<1>3. CASE i > Len(q)
  <2>1. i \in (Len(q) + 1)..Len(w)
    BY <1>1, <1>3
  <2>2. i - Len(q) \in 1..Len(p) /\ StateAt(p, i - Len(q), A)
    BY <1>1, <2>1 DEF Final, StateAt
  <2>3. ~NoneOf(p, A) /\ ~Mute(p)
    BY <2>2 DEF NoneOf, Mute, StateAt
  <2>4. ~\E b \in k..Len(q) : StateAt(q, b, B)
    <3>1. SUFFICES ASSUME NEW b \in k..Len(q), StateAt(q, b, B) PROVE FALSE
      OBVIOUS
    <3>2. b \in k..(i - 1) /\ b \in 1..Len(q)
      BY <1>1, <2>1
    <3> QED BY <1>1, <3>1, <3>2 DEF Final, StateAt
  <2>5. Q /\ Only(p, A)
    BY <2>3, <2>4
  <2>6. ASSUME NEW j \in (i + 1)..Len(w), w[j].type = "state"
        PROVE  w[j].state \in A
    <3>1. j \in (Len(q) + 1)..Len(w)
      BY <1>1, <2>1
    <3> QED BY <1>1, <2>5, <2>6, <3>1 DEF Only
  <2> QED BY <2>5, <2>6
<1> QED BY <1>1, <1>2, <1>3

\* The first event was read.
LEMMA SettlesTail ==
    ASSUME NEW S, NEW q \in Seq(S), q # <<>>, NEW k \in 1..(Len(q) + 1),
           NEW A, NEW B, NEW P, Settles(q, k, A, B, P),
           k = 1 => ~StateAt(q, 1, B)
    PROVE  Settles(Tail(q), IF k = 1 THEN 1 ELSE k - 1, A, B, P)
<1> DEFINE w == Tail(q)
           m == IF k = 1 THEN 1 ELSE k - 1
<1>1. /\ Len(q) \in Nat /\ Len(q) > 0 /\ Len(w) = Len(q) - 1
      /\ \A i \in 1..Len(w) : w[i] = q[i + 1]
  BY HeadTailProperties, LenProperties
<1>2. m \in Nat /\ m >= 1 /\ k <= m + 1 /\ (k > 1 => k = m + 1) /\ (k = 1 => m = 1)
      /\ k \in Nat /\ k >= 1
  BY <1>1
<1> HIDE DEF w, m
<1> SUFFICES ASSUME NEW i \in m..Len(w), Final(w, m, A, B, i)
             PROVE  P /\ \A j \in (i + 1)..Len(w) :
                              w[j].type = "state" => w[j].state \in A
  BY DEF Settles, w, m
<1>3. i \in 1..Len(w) /\ i + 1 \in k..Len(q) /\ w[i] = q[i + 1]
  BY <1>1, <1>2
<1>4. ASSUME NEW j \in k..((i + 1) - 1) PROVE ~StateAt(q, j, B)
  <2>1. CASE j = 1
    BY <1>2, <2>1
  <2>2. CASE j # 1
    <3>1. j - 1 \in m..(i - 1) /\ j - 1 \in 1..Len(w) /\ (j - 1) + 1 = j
      BY <1>1, <1>2, <1>3, <2>2
    <3>2. w[j - 1] = q[j]
      BY <1>1, <3>1
    <3> QED BY <3>1, <3>2 DEF Final, StateAt
  <2> QED BY <2>1, <2>2
<1>5. Final(q, k, A, B, i + 1)
  BY <1>3, <1>4 DEF Final, StateAt
<1>6. P /\ \A j \in ((i + 1) + 1)..Len(q) :
              q[j].type = "state" => q[j].state \in A
  BY <1>3, <1>5 DEF Settles
<1>7. ASSUME NEW j \in (i + 1)..Len(w), w[j].type = "state"
      PROVE  w[j].state \in A
  <2>1. j \in 1..Len(w) /\ j + 1 \in ((i + 1) + 1)..Len(q)
    BY <1>1, <1>3
  <2> QED BY <1>1, <1>6, <1>7, <2>1
<1> QED BY <1>6, <1>7

\* A "Disconnecting", "Disconnected" or "Error" before any "Connected" says
\* that the protocol does not work any more; a "Disconnected" or "Error" with
\* no "Disconnecting" before it, that it has ended.
Orderly(q, k, c) ==
    /\ Settles(q, k, Leaves, {"Connected"}, ~Live(c))
    /\ Settles(q, k, Over, {"Connected", "Disconnecting"}, Ended(c))

\* From position k on the inbox q tells of the attempt of c; what is before it
\* is the tail of an earlier one.
Fresh(q, k, c, act) ==
    /\ \A i \in 1..(k - 1) : q[i].type = "state" => q[i].state \in Over
    /\ OnlyFrom(q, k, Working \cup Leaves, c.attempt)
    /\ Live(c) => \A i \in k..Len(q) : ~StateAt(q, i, {"Error"})
    /\ act => Orderly(q, k, c)

\* The first event of the inbox was read.
LEMMA FreshRead ==
    ASSUME NEW q \in Seq(Event), q # <<>>, NEW k \in 1..(Len(q) + 1), NEW c,
           NEW act, NEW act2, Fresh(q, k, c, act), act2 => act,
           (act2 /\ k = 1) => ~StateAt(q, 1, {"Connected", "Disconnecting"})
    PROVE  LET m == IF k = 1 THEN 1 ELSE k - 1
           IN  /\ m \in 1..(Len(Tail(q)) + 1) /\ Fresh(Tail(q), m, c, act2)
               /\ \A X : (k > 1 /\ k <= Len(q) /\ StateAt(q, k, X))
                            => m <= Len(Tail(q)) /\ StateAt(Tail(q), m, X)
<1> DEFINE w == Tail(q)
           m == IF k = 1 THEN 1 ELSE k - 1
<1>1. /\ Len(q) \in Nat /\ Len(q) > 0 /\ Len(w) = Len(q) - 1
      /\ w \in Seq(Event)
      /\ \A i \in 1..Len(w) : w[i] = q[i + 1]
  BY HeadTailProperties, LenProperties
<1>2. /\ m \in Nat /\ m >= 1 /\ k <= m + 1 /\ (k > 1 => k = m + 1)
      /\ (k = 1 => m = 1) /\ k \in Nat /\ k >= 1
      /\ m \in 1..(Len(w) + 1)
  BY <1>1
<1>3. act2 => Orderly(w, m, c)
  <2>1. SUFFICES ASSUME act2 PROVE Orderly(w, m, c)
    OBVIOUS
  <2>2. /\ Settles(q, k, Leaves, {"Connected"}, ~Live(c))
        /\ Settles(q, k, Over, {"Connected", "Disconnecting"}, Ended(c))
    BY <2>1 DEF Fresh, Orderly
  <2>3. k = 1 => /\ ~StateAt(q, 1, {"Connected"})
                 /\ ~StateAt(q, 1, {"Connected", "Disconnecting"})
    BY <2>1 DEF StateAt
  <2>4. Settles(w, m, Leaves, {"Connected"}, ~Live(c))
    BY <2>2, <2>3, SettlesTail
  <2>5. Settles(w, m, Over, {"Connected", "Disconnecting"}, Ended(c))
    BY <2>2, <2>3, SettlesTail
  <2> QED BY <2>4, <2>5 DEF Orderly
<1> HIDE DEF w, m
<1>4. ASSUME NEW i \in 1..(m - 1), w[i].type = "state"
      PROVE  w[i].state \in Over
  <2>1. i \in 1..Len(w) /\ i + 1 \in 1..(k - 1)
    BY <1>1, <1>2
  <2> QED BY <1>1, <1>4, <2>1 DEF Fresh
<1>5. ASSUME NEW i \in m..Len(w)
      PROVE  i \in 1..Len(w) /\ i + 1 \in k..Len(q) /\ w[i] = q[i + 1]
  BY <1>1, <1>2
<1>6. OnlyFrom(w, m, Working \cup Leaves, c.attempt)
  BY <1>5 DEF Fresh, OnlyFrom
<1>7. Live(c) => \A i \in m..Len(w) : ~StateAt(w, i, {"Error"})
  BY <1>5 DEF Fresh, StateAt
<1>8. ASSUME NEW X, k > 1, k <= Len(q), StateAt(q, k, X)
      PROVE  m <= Len(w) /\ StateAt(w, m, X)
  <2>1. m \in 1..Len(w) /\ m + 1 = k
    BY <1>1, <1>2, <1>8
  <2> QED BY <1>1, <1>8, <2>1 DEF StateAt
<1>9. Fresh(w, m, c, act2)
  BY <1>3, <1>4, <1>6, <1>7 DEF Fresh
<1> QED BY <1>2, <1>8, <1>9 DEF w, m

\* More is signalled of the same attempt.
LEMMA FreshOn ==
    ASSUME NEW q \in Seq(Event), NEW p \in Seq(Event),
           NEW k \in 1..(Len(q) + 1), NEW c, NEW d, NEW act,
           Fresh(q, k, c, act), d.attempt = c.attempt,
           OnlyFrom(p, 1, Working \cup Leaves, c.attempt),
           Live(d) => Live(c) /\ NoneOf(p, {"Error"}),
           act => Orderly(q \o p, k, d)
    PROVE  Fresh(q \o p, k, d, act)
<1> DEFINE w == q \o p
<1>1. /\ Len(q) \in Nat /\ Len(p) \in Nat /\ Len(w) = Len(q) + Len(p)
      /\ \A i \in 1..Len(q) : w[i] = q[i]
      /\ \A i \in (Len(q) + 1)..Len(w) :
            i - Len(q) \in 1..Len(p) /\ w[i] = p[i - Len(q)]
  BY ConcatPositions
<1>2. act => Orderly(w, k, d)
  OBVIOUS
<1> HIDE DEF w
<1>3. \A i \in 1..(k - 1) : w[i].type = "state" => w[i].state \in Over
  BY <1>1 DEF Fresh
<1>4. ASSUME NEW i \in k..Len(w)
      PROVE  \/ i \in k..Len(q) /\ w[i] = q[i]
             \/ i - Len(q) \in 1..Len(p) /\ w[i] = p[i - Len(q)]
  <2>1. CASE i <= Len(q)
    BY <1>1, <2>1
  <2>2. CASE i > Len(q)
    BY <1>1, <2>2
  <2> QED BY <1>1, <2>1, <2>2
<1>5. OnlyFrom(w, k, Working \cup Leaves, d.attempt)
  <2>1. ASSUME NEW i \in k..Len(w), w[i].type = "state"
        PROVE  w[i].state \in Working \cup Leaves /\ w[i].attempt = d.attempt
    BY <1>4, <2>1 DEF Fresh, OnlyFrom
  <2> QED BY <2>1 DEF OnlyFrom
<1>6. Live(d) => \A i \in k..Len(w) : ~StateAt(w, i, {"Error"})
  BY <1>4 DEF Fresh, NoneOf, StateAt
<1> QED BY <1>2, <1>3, <1>5, <1>6 DEF Fresh, w

\* Something else than a state is queued behind it.
LEMMA FreshMute ==
    ASSUME NEW q \in Seq(Event), NEW p \in Seq(Event), Mute(p),
           NEW k \in 1..(Len(q) + 1), NEW c, NEW d, NEW act,
           Fresh(q, k, c, act), d.attempt = c.attempt,
           Live(d) <=> Live(c), Ended(d) <=> Ended(c)
    PROVE  Fresh(q \o p, k, d, act)
<1>1. /\ OnlyFrom(p, 1, Working \cup Leaves, c.attempt)
      /\ NoneOf(p, {"Error"}) /\ Only(p, Leaves) /\ Only(p, Over)
  BY DEF Mute, OnlyFrom, NoneOf, Only, StateAt
<1>2. ASSUME act PROVE Orderly(q \o p, k, d)
  <2>1. /\ Settles(q, k, Leaves, {"Connected"}, ~Live(c))
        /\ Settles(q, k, Over, {"Connected", "Disconnecting"}, Ended(c))
    BY <1>2 DEF Fresh, Orderly
  <2>2. Settles(q \o p, k, Leaves, {"Connected"}, ~Live(d))
    BY <1>1, <2>1, SettlesOn
  <2>3. Settles(q \o p, k, Over, {"Connected", "Disconnecting"}, Ended(d))
    BY <1>1, <2>1, SettlesOn
  <2> QED BY <2>2, <2>3 DEF Orderly
<1> QED BY <1>1, <1>2, FreshOn

\* What an event makes known of the attempt.
LEMMA FreshReport ==
    ASSUME inbox \in Seq(Event), Report, NEW k \in 1..(Len(inbox) + 1), NEW act,
           Fresh(inbox, k, vpn, act),
           (act /\ Live(vpn) /\ vpn.state = "Connected") =>
              \E b \in k..Len(inbox) : StateAt(inbox, b, {"Connected"})
    PROVE  Fresh(inbox', k, vpn', act)
<1> DEFINE a == vpn.attempt
<1>1. vpn'.attempt = a
  BY DEF Report
<1>2. ASSUME act
      PROVE  /\ Settles(inbox, k, Leaves, {"Connected"}, ~Live(vpn))
             /\ Settles(inbox, k, Over, {"Connected", "Disconnecting"}, Ended(vpn))
  BY <1>2 DEF Fresh, Orderly
<1>3. Live(vpn) => ~Ended(vpn)
  BY DEF Ended
<1>4. Ended(vpn') => ~Live(vpn')
  BY DEF Ended
<1>5. CASE /\ Spoken({}, a) /\ (Live(vpn') <=> Live(vpn))
           /\ (Ended(vpn') <=> Ended(vpn))
  <2>1. PICK p \in Seq(Event) : inbox' = inbox \o p /\ OnlyFrom(p, 1, {}, a)
    BY <1>5 DEF Spoken
  <2>2. Mute(p)
    BY <2>1 DEF Mute, OnlyFrom
  <2> QED BY <1>1, <1>5, <2>1, <2>2, FreshMute
<1>6. CASE Live(vpn) /\ Live(vpn') /\ Spoken(Working, a)
  <2>1. PICK p \in Seq(Event) : inbox' = inbox \o p /\ OnlyFrom(p, 1, Working, a)
    BY <1>6 DEF Spoken
  <2>2. /\ OnlyFrom(p, 1, Working \cup Leaves, a) /\ NoneOf(p, {"Error"})
        /\ NoneOf(p, Leaves) /\ NoneOf(p, Over)
    BY <2>1 DEF OnlyFrom, NoneOf, StateAt, Leaves, Over, Working
  <2>3. ASSUME act PROVE Orderly(inbox \o p, k, vpn')
    <3>1. Settles(inbox \o p, k, Leaves, {"Connected"}, ~Live(vpn'))
      BY <1>2, <1>6, <2>2, <2>3, SettlesOn
    <3>2. Settles(inbox \o p, k, Over, {"Connected", "Disconnecting"}, Ended(vpn'))
      BY <1>2, <1>3, <1>6, <2>2, <2>3, SettlesOn
    <3> QED BY <3>1, <3>2 DEF Orderly
  <2> QED BY <1>1, <1>6, <2>1, <2>2, <2>3, FreshOn
<1>7. CASE Ended(vpn') /\ Spoken(Over, a)
  <2>1. PICK p \in Seq(Event) : inbox' = inbox \o p /\ OnlyFrom(p, 1, Over, a)
    BY <1>7 DEF Spoken
  <2>2. /\ OnlyFrom(p, 1, Working \cup Leaves, a)
        /\ Only(p, Leaves) /\ Only(p, Over)
    BY <2>1 DEF OnlyFrom, Only, Leaves, Over
  <2>3. ASSUME act PROVE Orderly(inbox \o p, k, vpn')
    <3>1. Settles(inbox \o p, k, Leaves, {"Connected"}, ~Live(vpn'))
      BY <1>2, <1>4, <1>7, <2>2, <2>3, SettlesOn
    <3>2. Settles(inbox \o p, k, Over, {"Connected", "Disconnecting"}, Ended(vpn'))
      BY <1>2, <1>7, <2>2, <2>3, SettlesOn
    <3> QED BY <3>1, <3>2 DEF Orderly
  <2> QED BY <1>1, <1>4, <1>7, <2>1, <2>2, <2>3, FreshOn
<1>8. CASE Live(vpn) /\ ~Live(vpn') /\ Spoken({"Disconnecting"}, a)
  <2>1. PICK p \in Seq(Event) :
           inbox' = inbox \o p /\ OnlyFrom(p, 1, {"Disconnecting"}, a)
    BY <1>8 DEF Spoken
  <2>2. /\ OnlyFrom(p, 1, Working \cup Leaves, a)
        /\ Only(p, Leaves) /\ NoneOf(p, Over)
    BY <2>1 DEF OnlyFrom, Only, NoneOf, StateAt, Leaves, Over
  <2>3. ASSUME act PROVE Orderly(inbox \o p, k, vpn')
    <3>1. Settles(inbox \o p, k, Leaves, {"Connected"}, ~Live(vpn'))
      BY <1>2, <1>8, <2>2, <2>3, SettlesOn
    <3>2. Settles(inbox \o p, k, Over, {"Connected", "Disconnecting"}, Ended(vpn'))
      BY <1>2, <1>3, <1>8, <2>2, <2>3, SettlesOn
    <3> QED BY <3>1, <3>2 DEF Orderly
  <2> QED BY <1>1, <1>8, <2>1, <2>2, <2>3, FreshOn
<1>9. ASSUME Live(vpn), vpn.state = "Connected", NEW T,
             T \subseteq Working \cup Leaves, Live(vpn') => "Error" \notin T,
             Spoken(T, a)
      PROVE  Fresh(inbox', k, vpn', act)
  <2>1. PICK p \in Seq(Event) : inbox' = inbox \o p /\ OnlyFrom(p, 1, T, a)
    BY <1>9 DEF Spoken
  <2>2. /\ OnlyFrom(p, 1, Working \cup Leaves, a)
        /\ Live(vpn') => NoneOf(p, {"Error"})
    BY <1>9, <2>1 DEF OnlyFrom, NoneOf, StateAt
  <2>3. ASSUME act PROVE Orderly(inbox \o p, k, vpn')
    <3>1. /\ \E b \in k..Len(inbox) : StateAt(inbox, b, {"Connected"})
          /\ \E b \in k..Len(inbox) :
                StateAt(inbox, b, {"Connected", "Disconnecting"})
      BY <1>9, <2>3 DEF StateAt
    <3>2. Settles(inbox \o p, k, Leaves, {"Connected"}, ~Live(vpn'))
      BY <1>2, <1>9, <2>3, <3>1, SettlesOn
    <3>3. Settles(inbox \o p, k, Over, {"Connected", "Disconnecting"}, Ended(vpn'))
      BY <1>2, <1>3, <1>9, <2>3, <3>1, SettlesOn
    <3> QED BY <3>2, <3>3 DEF Orderly
  <2> QED BY <1>1, <1>9, <2>1, <2>2, <2>3, FreshOn
<1>10. CASE /\ Live(vpn) /\ vpn.state = "Connected"
            /\ \/ /\ Live(vpn')
                  /\ Spoken(Working \cup {"Disconnecting", "Disconnected"}, a)
               \/ Ended(vpn') /\ Spoken(Working \cup Leaves, a)
  <2> DEFINE T == Working \cup {"Disconnecting", "Disconnected"}
             L == Working \cup Leaves
  <2>1. T \subseteq L /\ "Error" \notin T
    BY DEF Leaves, Over, Working
  <2> HIDE DEF T
  <2>2. CASE Live(vpn') /\ Spoken(T, a)
    BY <1>9, <1>10, <2>1, <2>2
  <2>3. CASE Ended(vpn') /\ Spoken(L, a)
    BY <1>4, <1>9, <1>10, <2>3
  <2> QED BY <1>10, <2>2, <2>3 DEF T
<1> QED BY <1>5, <1>6, <1>7, <1>8, <1>10 DEF Report

\* A new attempt announces itself behind the tail of the one it replaces.
LEMMA FreshStart ==
    ASSUME NEW q \in Seq(Event), NEW p \in Seq(Event), NEW c, NEW act,
           Only(q, Over), Fanfare(p, c.attempt),
           \/ Live(c) /\ OnlyFrom(p, 1, {"Connecting"}, c.attempt)
           \/ Ended(c)
    PROVE  /\ Fresh(q \o p, Len(q) + 1, c, act)
           /\ Len(q) + 1 \in 1..Len(q \o p)
           /\ StateAt(q \o p, Len(q) + 1, {"Connecting"})
<1> DEFINE w == q \o p
           k == Len(q) + 1
<1>1. /\ Len(q) \in Nat /\ Len(p) \in Nat /\ Len(w) = Len(q) + Len(p)
      /\ \A i \in 1..Len(q) : w[i] = q[i]
      /\ \A i \in (Len(q) + 1)..Len(w) :
            i - Len(q) \in 1..Len(p) /\ w[i] = p[i - Len(q)]
  BY ConcatPositions
<1> HIDE DEF w
<1>2. PICK n \in 1..Len(p) :
         /\ \A i \in 1..n : p[i].type = "state" => p[i].state = "Connecting"
         /\ OnlyFrom(p, n + 1, Over, c.attempt)
  BY DEF Fanfare
<1>3. k \in 1..Len(w) /\ StateAt(w, k, {"Connecting"})
  <2>1. Len(p) >= 1 /\ p[1] = StateSignal("Connecting", c.attempt)
    BY DEF Fanfare
  <2>2. k \in (Len(q) + 1)..Len(w) /\ k - Len(q) = 1
    BY <1>1, <2>1
  <2>3. w[k] = p[1]
    BY <1>1, <2>2
  <2> QED BY <1>1, <2>1, <2>3 DEF StateAt, StateSignal
<1>4. ASSUME NEW i \in k..Len(w)
      PROVE  /\ i \in (Len(q) + 1)..Len(w)
             /\ i - Len(q) \in 1..Len(p) /\ w[i] = p[i - Len(q)]
  BY <1>1
<1>5. \A i \in 1..(k - 1) : w[i].type = "state" => w[i].state \in Over
  BY <1>1 DEF Only
<1>6. OnlyFrom(w, k, Working \cup Leaves, c.attempt)
  <2>1. OnlyFrom(p, 1, {"Connecting"} \cup Over, c.attempt)
    BY DEF Fanfare
  <2>2. ASSUME NEW i \in k..Len(w), w[i].type = "state"
        PROVE  w[i].state \in Working \cup Leaves /\ w[i].attempt = c.attempt
    BY <1>4, <2>1, <2>2 DEF OnlyFrom, Working, Leaves
  <2> QED BY <2>2 DEF OnlyFrom
<1>7. Live(c) => \A i \in k..Len(w) : ~StateAt(w, i, Leaves)
  <2>1. SUFFICES ASSUME Live(c), NEW i \in k..Len(w), StateAt(w, i, Leaves)
                 PROVE  FALSE
    OBVIOUS
  <2>2. OnlyFrom(p, 1, {"Connecting"}, c.attempt)
    BY <2>1 DEF Ended
  <2>3. w[i].state = "Connecting"
    BY <1>4, <2>1, <2>2 DEF OnlyFrom, StateAt
  <2> QED BY <2>1, <2>3 DEF StateAt, Leaves, Over
<1>8. Live(c) => \A i \in k..Len(w) : ~StateAt(w, i, {"Error"})
  BY <1>7 DEF StateAt, Leaves, Over
<1>9. ASSUME NEW A, Over \subseteq A, A \subseteq Leaves,
             NEW B, NEW P, ~Live(c) => P
      PROVE  Settles(w, k, A, B, P)
  <2>1. SUFFICES ASSUME NEW i \in k..Len(w), StateAt(w, i, A)
                 PROVE  P /\ \A j \in (i + 1)..Len(w) :
                                  w[j].type = "state" => w[j].state \in A
    BY DEF Settles, Final
  <2>2. StateAt(w, i, Leaves)
    BY <1>9, <2>1 DEF StateAt
  <2>3. P
    BY <1>7, <1>9, <2>2
  <2>4. ~(i - Len(q) <= n)
    <3>1. SUFFICES ASSUME i - Len(q) <= n PROVE FALSE
      OBVIOUS
    <3>2. i - Len(q) \in 1..n
      BY <1>1, <1>4, <3>1
    <3>3. w[i].state = "Connecting"
      BY <1>2, <1>4, <2>1, <3>2 DEF StateAt
    <3> QED BY <2>2, <3>3 DEF StateAt, Leaves, Over
  <2>5. ASSUME NEW j \in (i + 1)..Len(w), w[j].type = "state"
        PROVE  w[j].state \in A
    <3>1. j \in k..Len(w) /\ j - Len(q) \in (n + 1)..Len(p)
      BY <1>1, <1>4, <2>4
    <3>2. w[j] = p[j - Len(q)]
      BY <1>4, <3>1
    <3> QED BY <1>2, <1>9, <2>5, <3>1, <3>2 DEF OnlyFrom
  <2> QED BY <2>3, <2>5
<1>10. Orderly(w, k, c)
  <2>1. /\ Over \subseteq Leaves /\ Leaves \subseteq Leaves /\ Over \subseteq Over
        /\ ~Live(c) => Ended(c)
    BY DEF Leaves
  <2>2. Settles(w, k, Leaves, {"Connected"}, ~Live(c))
    BY <1>9, <2>1
  <2>3. Settles(w, k, Over, {"Connected", "Disconnecting"}, Ended(c))
    BY <1>9, <2>1
  <2> QED BY <2>2, <2>3 DEF Orderly
<1>11. Fresh(w, k, c, act)
  BY <1>5, <1>6, <1>8, <1>10 DEF Fresh
<1> QED BY <1>3, <1>11 DEF w, k

-----------------------------------------------------------------------------
(* What holds of every opening, left alone or not.                           *)

\* The last request to connect in q has number n.
LastConnect(q, n) ==
    \E i \in 1..Len(q) :
        /\ q[i].op = "connect" /\ q[i].attempt.no = n
        /\ \A j \in (i + 1)..Len(q) : q[j].op # "connect"

\* VpnConnection is at the attempt launched last, or will be.
Latest ==
    \/ ~ConnectPending /\ vpn.attempt.no = launches
    \/ LastConnect(posted, launches)

\* The protocol of an opening that is left alone is in one of the states its
\* slots leave it in.
SteadyInv == Latest /\ (calm => Shaped(vpn))

\* A request at the end of the queue.
LEMMA LastConnectOn ==
    ASSUME NEW q \in Seq(Command), NEW e \in Command, NEW n
    PROVE  /\ (e.op = "connect" /\ e.attempt.no = n) => LastConnect(Append(q, e), n)
           /\ (e.op # "connect" /\ LastConnect(q, n)) => LastConnect(Append(q, e), n)
<1> DEFINE w == Append(q, e)
<1>1. /\ Len(w) = Len(q) + 1 /\ w[Len(q) + 1] = e /\ Len(q) \in Nat
      /\ \A i \in 1..Len(q) : w[i] = q[i]
  BY AppendProperties, LenProperties
<1> HIDE DEF w
<1>2. ASSUME e.op = "connect", e.attempt.no = n
      PROVE  LastConnect(w, n)
  <2>1. Len(w) \in 1..Len(w) /\ w[Len(w)] = e
        /\ \A j \in (Len(w) + 1)..Len(w) : w[j].op # "connect"
    BY <1>1
  <2> QED BY <1>2, <2>1 DEF LastConnect
<1>3. ASSUME e.op # "connect", LastConnect(q, n)
      PROVE  LastConnect(w, n)
  <2>1. PICK i \in 1..Len(q) : /\ q[i].op = "connect" /\ q[i].attempt.no = n
                               /\ \A j \in (i + 1)..Len(q) : q[j].op # "connect"
    BY <1>3 DEF LastConnect
  <2>2. i \in 1..Len(w) /\ w[i] = q[i]
    BY <1>1
  <2>3. ASSUME NEW j \in (i + 1)..Len(w) PROVE w[j].op # "connect"
    <3>1. CASE j \in (i + 1)..Len(q)
      BY <1>1, <2>1, <3>1
    <3>2. CASE j = Len(q) + 1
      BY <1>1, <1>3, <3>2
    <3> QED BY <1>1, <3>1, <3>2
  <2> QED BY <2>1, <2>2, <2>3 DEF LastConnect
<1> QED BY <1>2, <1>3 DEF w

\* The first request was taken.
LEMMA LastConnectTaken ==
    ASSUME NEW q \in Seq(Command), q # <<>>, NEW n, LastConnect(q, n)
    PROVE  \/ LastConnect(Tail(q), n)
           \/ /\ Head(q).op = "connect" /\ Head(q).attempt.no = n
              /\ \A i \in 1..Len(Tail(q)) : Tail(q)[i].op # "connect"
<1> DEFINE w == Tail(q)
<1>1. /\ Len(q) \in Nat /\ Len(q) > 0 /\ Len(w) = Len(q) - 1 /\ Head(q) = q[1]
      /\ \A i \in 1..Len(w) : w[i] = q[i + 1]
  BY HeadTailProperties, LenProperties
<1> HIDE DEF w
<1>2. PICK i \in 1..Len(q) : /\ q[i].op = "connect" /\ q[i].attempt.no = n
                             /\ \A j \in (i + 1)..Len(q) : q[j].op # "connect"
  BY DEF LastConnect
<1>3. ASSUME NEW j \in i..Len(w) PROVE w[j].op # "connect"
  <2>1. j \in 1..Len(w) /\ j + 1 \in (i + 1)..Len(q)
    BY <1>1
  <2> QED BY <1>1, <1>2, <2>1
<1>4. CASE i = 1
  BY <1>1, <1>2, <1>3, <1>4 DEF w
<1>5. CASE i # 1
  <2>1. i - 1 \in 1..Len(w) /\ (i - 1) + 1 = i
    BY <1>1, <1>5
  <2>2. w[i - 1] = q[i]
    BY <1>1, <2>1
  <2>3. \A j \in ((i - 1) + 1)..Len(w) : w[j].op # "connect"
    BY <1>3, <2>1
  <2>4. LastConnect(w, n)
    BY <1>2, <2>1, <2>2, <2>3 DEF LastConnect
  <2> QED BY <2>4 DEF w
<1> QED BY <1>4, <1>5

\* Only a request to connect is a launch.
Counted ==
    \/ /\ launches' = launches
       /\ \/ posted' = posted
          \/ \E e \in Command : posted' = Append(posted, e) /\ e.op # "connect"
    \/ /\ launches' = launches + 1
       /\ \E e \in Command : /\ posted' = Append(posted, e) /\ e.op = "connect"
                             /\ e.attempt.no = launches + 1

LEMMA CountedKeepsLatest ==
    ASSUME StackInv, Latest, Counted, UNCHANGED vpn
    PROVE  Latest'
<1>1. posted \in Seq(Command)
  BY DEF StackInv, ControllerInv, ControllerTypeOK
<1>2. CASE launches' = launches /\ posted' = posted
  BY <1>2 DEF Latest, ConnectPending
<1>3. ASSUME NEW e \in Command, launches' = launches,
             posted' = Append(posted, e), e.op # "connect"
      PROVE  Latest'
  <2>1. ConnectPending' => ConnectPending
    BY <1>1, <1>3, RequestPending
  <2>2. LastConnect(posted, launches) => LastConnect(posted', launches')
    BY <1>1, <1>3, LastConnectOn
  <2> QED BY <1>3, <2>1, <2>2 DEF Latest
<1>4. ASSUME NEW e \in Command, launches' = launches + 1, e.op = "connect",
             posted' = Append(posted, e), e.attempt.no = launches + 1
      PROVE  Latest'
  <2>1. LastConnect(posted', launches')
    BY <1>1, <1>4, LastConnectOn
  <2> QED BY <2>1 DEF Latest
<1> QED BY <1>2, <1>3, <1>4 DEF Counted

\* An error shown as such is no launch.
LEMMA ErrorCounts ==
    ASSUME StackInv, NEW s, posted' = posted \o ErrorReply(s), UNCHANGED launches
    PROVE  Counted
<1>1. posted \in Seq(Command) /\ SetState("Disconnected") \in Command
      /\ SetState("Disconnected").op # "connect"
  BY Requests DEF StackInv, ControllerInv, ControllerTypeOK, RequestedState
<1>2. CASE s \in {"Error", "Unknown"}
  BY <1>1, <1>2, AppendIsConcat DEF ErrorReply, Counted
<1>3. CASE s \notin {"Error", "Unknown"}
  BY <1>1, <1>3, ConcatEmptySeq DEF ErrorReply, Counted
<1> QED BY <1>2, <1>3

\* A launch carries the next number.
LEMMA LaunchCounts ==
    ASSUME StackInv, NEW s \in Servers
    PROVE  /\ Launch(s) \in Command /\ Launch(s).op = "connect"
           /\ Launch(s).attempt = [no |-> launches + 1, server |-> s]
           /\ Launch(s).attempt.no = launches + 1
           /\ Launch(s).attempt.server = s
<1>1. launches \in Nat
  BY DEF StackInv, ControllerInv, ControllerTypeOK
<1> QED BY <1>1 DEF Launch, Connect, Command, Attempt

\* tryNextCandidate launches a server of the queue behind the current one.
LEMMA CandidateLaunched ==
    ASSUME StackInv, tryNextCandidate
    PROVE  \E k \in Launchable :
              /\ k \in 1..Len(queue) /\ k > index
              /\ queue[k] \in Servers /\ queue[k] \in Preparable
              /\ \A j \in Launchable : k <= j
              /\ index' = k /\ launched' = Append(launched, queue[k])
              /\ launches' = launches + 1
              /\ posted' = Append(posted, Launch(queue[k]))
<1>1. queue \in Seq(Servers) /\ index \in 0..Len(queue)
  BY DEF StackInv, ControllerInv, ControllerTypeOK
<1>2. PICK k \in Launchable :
              /\ \A j \in Launchable : k <= j
              /\ index' = k /\ launched' = Append(launched, queue[k])
              /\ launches' = launches + 1
              /\ posted' = Append(posted, Launch(queue[k]))
  BY DEF tryNextCandidate
<1>3. k \in 1..Len(queue) /\ k > index /\ queue[k] \in Preparable
  BY <1>1, <1>2 DEF Launchable
<1>4. queue[k] \in Servers
  BY <1>1, <1>3, ElementOfSeq
<1> QED BY <1>2, <1>3, <1>4

\* What openConnection asks for.
LEMMA OpeningCounts ==
    ASSUME StackInv, NEW rest, openConnection(rest)
    PROVE  /\ Counted
           /\ \/ /\ defaultServer \in Preparable
                 /\ launches' = launches + 1 /\ launched' = <<defaultServer>>
                 /\ posted' = Append(posted, Launch(defaultServer))
              \/ /\ defaultServer \notin Preparable
                 /\ launches' = launches /\ launched' = <<>>
                 /\ \/ posted' = Append(posted, SetState("Disconnected"))
                    \/ posted' = posted
<1>1. /\ defaultServer \in Servers /\ SetState("Disconnected") \in Command
      /\ SetState("Disconnected").op # "connect"
  BY Requests DEF StackInv, ControllerInv, ControllerTypeOK, RequestedState
<1>2. \/ /\ defaultServer \in Preparable
         /\ launches' = launches + 1 /\ launched' = <<defaultServer>>
         /\ posted' = Append(posted, Launch(defaultServer))
      \/ /\ defaultServer \notin Preparable
         /\ launches' = launches /\ launched' = <<>>
         /\ \/ posted' = Append(posted, SetState("Disconnected"))
            \/ posted' = posted
  BY DEF openConnection, notifyConnectionBlocked
<1>3. Counted
  BY <1>1, <1>2, LaunchCounts DEF Counted
<1> QED BY <1>2, <1>3

\* Everything the user-interface thread does.
LEMMA UiCounts ==
    ASSUME StackInv, UiTurn \/ Validation \/ Budget \/ User
    PROVE  Counted
<1>1. /\ "Preparing" \in RequestedState /\ "Disconnected" \in RequestedState
      /\ Disconnect \in Command /\ Disconnect.op # "connect"
      /\ \A s \in RequestedState : SetState(s) \in Command
                                   /\ SetState(s).op # "connect"
  BY Requests DEF RequestedState
<1>2. CASE DeliverState
  <2>1. PICK s, code : HandleConnectionState(s, code)
    BY <1>2 DEF DeliverState
  <2>2. CASE AttemptStarted(s) \/ TunnelUp(s) \/ TailIgnored(s)
    BY <2>2 DEF AttemptStarted, TunnelUp, TailIgnored, Counted,
                controllerVars, historyVars
  <2>3. CASE GiveUp(s)
    BY <2>3, ErrorCounts DEF GiveUp, historyVars
  <2>4. CASE SwitchToBackup(s, code)
    BY <2>4, CandidateLaunched, LaunchCounts DEF SwitchToBackup, Counted
  <2> QED BY <2>1, <2>2, <2>3, <2>4
          DEF HandleConnectionState, SubscriptionFailure, AttemptEnded
<1>3. CASE DeliverError
  BY <1>3 DEF DeliverError, HandleProtocolError, Counted, historyVars
<1>4. CASE DeliverOpen
  BY <1>4, OpeningCounts DEF DeliverOpen, Reopen
<1>5. CASE Budget
  BY <1>5 DEF Budget, BudgetFires, Counted
<1>6. ASSUME NEW s \in RequestedState, RequestState(s)
      PROVE  Counted
  BY <1>1, <1>6 DEF RequestState, Counted
<1>7. CASE Validation
  BY <1>1, <1>6, <1>7, OpeningCounts DEF Validation, ConfigValidated, ConfigRefused
<1>8. CASE User
  <2>1. CASE OpenClick
    BY <1>1, <1>6, <2>1, OpeningCounts
    DEF OpenClick, ToggleOn, ToggleBlocked, ReconnectOpening
  <2>2. CASE CloseClick
    BY <1>1, <2>2
    DEF CloseClick, ToggleOff, switchProto, ReconnectClosing, closeConnection,
        Counted
  <2>3. CASE \E s \in Servers : SetDefaultServer(s)
    BY <2>3 DEF SetDefaultServer, Counted, historyVars
  <2> QED BY <1>8, <2>1, <2>2, <2>3 DEF User
<1> QED BY <1>2, <1>3, <1>4, <1>5, <1>7, <1>8 DEF UiTurn

\* Where nothing can be heard of an earlier attempt, its protocol was stopped.
LEMMA RestShaped ==
    ASSUME Plain, StackInv, ScreenInv, NEW pending, AtRest(pending)
    PROVE  Shaped(vpn)
<1>1. vpn \in VpnState
  BY DEF StackInv, VpnOK
<1>2. vpn.attempt.server \in Servers
  BY <1>1 DEF VpnState, Attempt
<1>3. vpn.kind # "Xray"
  BY <1>2 DEF ScreenInv, Truthful, VpnTruth, Made, Plain
<1>4. vpn.timer = FALSE /\ vpn.probe = FALSE /\ vpn.proc = "none"
  BY <1>1 DEF AtRest, VpnState
<1> QED BY <1>3, <1>4 DEF AtRest, Shaped

\* Only an opening that meets nothing under way counts as left alone.
LEMMA UiCalmStarts ==
    ASSUME UiTurn \/ Validation \/ Budget \/ User
    PROVE  (calm' /\ ~calm) => AtRest(inbox) \/ AtRest(Tail(inbox))
<1>1. ASSUME NEW rest, openConnection(rest) PROVE calm' = rest
  BY <1>1 DEF openConnection, startFailover
<1>2. CASE DeliverState
  BY <1>2
  DEF DeliverState, HandleConnectionState, AttemptStarted, TailIgnored,
      TunnelUp, SubscriptionFailure, SwitchToBackup, AttemptEnded, GiveUp,
      controllerVars, historyVars
<1>3. CASE DeliverError
  BY <1>3 DEF DeliverError, HandleProtocolError, historyVars
<1>4. CASE DeliverOpen
  BY <1>1, <1>4 DEF DeliverOpen, Reopen
<1>5. CASE Budget
  BY <1>5 DEF Budget, BudgetFires
<1>6. CASE Validation
  BY <1>1, <1>6 DEF Validation, ConfigValidated, ConfigRefused, RequestState
<1>7. CASE User
  BY <1>1, <1>7
  DEF User, OpenClick, ToggleOn, ToggleBlocked, ReconnectOpening, RequestState,
      CloseClick, ToggleOff, switchProto, ReconnectClosing, closeConnection,
      SetDefaultServer, historyVars
<1> QED BY <1>2, <1>3, <1>4, <1>5, <1>6, <1>7 DEF UiTurn

\* The VPN thread keeps to its attempt or takes the next one.
LEMMA VpnSteady ==
    ASSUME Plain, StackInv, ScreenInv, SteadyInv,
           VpnTurn \/ Timeout \/ Outside \/ Misheard
    PROVE  SteadyInv'
<1>1. /\ posted \in Seq(Command) /\ inbox \in Seq(Event)
      /\ VpnInv /\ Truthful /\ vpn.out = <<>> /\ Numbered
      /\ calm => Shaped(vpn)
  BY DEF StackInv, ControllerInv, ControllerTypeOK, VpnInv, ScreenInv,
         Truthful, SteadyInv
<1>2. launches' = launches /\ (calm' = calm \/ (Misheard /\ calm' = FALSE))
  BY BesidesCalm
  DEF VpnTurn, DeliverConnect, DeliverDisconnect, DeliverSetState,
      TakeCommand, Timeout, Outside, Unseen, besidesCalm
<1>3. ASSUME posted # <<>>, Head(posted).op # "connect", TakeCommand,
             vpn'.attempt = vpn.attempt
      PROVE  Latest'
  <2>1. posted' = Tail(posted)
    BY <1>3 DEF TakeCommand
  <2>2. CASE ~ConnectPending /\ vpn.attempt.no = launches
    <3>1. ~ConnectPending'
      <4>1. /\ Len(posted) \in Nat /\ Len(posted') = Len(posted) - 1
            /\ \A i \in 1..Len(posted') : posted'[i] = posted[i + 1]
        BY <1>1, <1>3, <2>1, HeadTailProperties, LenProperties
      <4>2. ASSUME NEW i \in 1..Len(posted') PROVE posted'[i].op # "connect"
        <5>1. i + 1 \in 1..Len(posted)
          BY <4>1
        <5> QED BY <2>2, <4>1, <5>1 DEF ConnectPending
      <4> QED BY <4>2 DEF ConnectPending
    <3> QED BY <1>2, <1>3, <2>2, <3>1 DEF Latest
  <2>3. CASE LastConnect(posted, launches)
    <3>1. LastConnect(posted', launches)
      BY <1>1, <1>3, <2>1, <2>3, LastConnectTaken
    <3> QED BY <1>2, <3>1 DEF Latest
  <2> QED BY <2>2, <2>3 DEF SteadyInv, Latest
<1>4. CASE DeliverConnect
  <2> DEFINE a == Head(posted).attempt
  <2>1. /\ posted # <<>> /\ Head(posted).op = "connect" /\ connectToVpn(a)
        /\ a \in Attempt /\ posted' = Tail(posted)
    BY <1>1, <1>4, FirstCommand DEF DeliverConnect, TakeCommand
  <2>2. a.no > 0
    BY <1>1, <2>1, FirstTaken
  <2> HIDE DEF a
  <2>3. vpn'.attempt = a
    BY <1>1, <2>1, <2>2, ConnectTells
  <2>4. calm => Shaped(vpn')
    BY <1>1, <2>1, ConnectSays
  <2>5. LastConnect(posted, launches)
    <3>1. 1 \in 1..Len(posted) /\ posted[1] = Head(posted)
      BY <1>1, <2>1, HeadTailProperties, LenProperties
    <3>2. ConnectPending
      BY <2>1, <3>1 DEF ConnectPending
    <3> QED BY <3>2 DEF SteadyInv, Latest
  <2>6. Latest'
    BY <1>1, <1>2, <2>1, <2>3, <2>5, LastConnectTaken
    DEF Latest, ConnectPending, a
  <2> QED BY <1>2, <2>4, <2>6 DEF SteadyInv
<1>5. CASE DeliverDisconnect
  <2>1. /\ posted # <<>> /\ Head(posted).op # "connect" /\ TakeCommand
        /\ disconnectFromVpn
    BY <1>5 DEF DeliverDisconnect
  <2>2. vpn'.attempt = vpn.attempt
    BY <1>1, <2>1, DisconnectTells
  <2>3. calm => Shaped(vpn')
    BY <1>1, <2>1, DisconnectSays
  <2> QED BY <1>2, <1>3, <2>1, <2>2, <2>3 DEF SteadyInv
<1>6. CASE DeliverSetState
  <2> DEFINE s == Head(posted).state
  <2>1. /\ posted # <<>> /\ Head(posted).op # "connect" /\ TakeCommand
        /\ Done(setConnectionState(vpn, s, vpn.attempt))
        /\ s \in ConnectionState \ Claims
    BY <1>1, <1>6, FirstCommand
    DEF DeliverSetState, RequestedState, ConnectionState, Claims
  <2> HIDE DEF s
  <2>2. vpn'.attempt = vpn.attempt
    BY <1>1, <2>1, SetStateTells
  <2>3. calm => Shaped(vpn')
    BY <1>1, <2>1, SetSays
  <2> QED BY <1>2, <1>3, <2>1, <2>2, <2>3 DEF SteadyInv
<1>7. CASE Timeout \/ Outside \/ Misheard
  <2>1. /\ \/ onTimeout \/ ProtocolEvent \/ reconnectToVpn \/ addSitesRoutes
           \/ misheardReport
        /\ UNCHANGED posted
    BY <1>7 DEF Timeout, Outside, Misheard, Unseen
  <2>2. vpn'.attempt = vpn.attempt
    BY <1>1, <2>1, EventTells
  <2>3. Latest'
    BY <1>2, <2>1, <2>2 DEF SteadyInv, Latest, ConnectPending
  <2>4. CASE Misheard
    BY <2>3, <2>4, BesidesCalm DEF SteadyInv
  <2>5. CASE Timeout \/ Outside
    <3>1. onTimeout \/ ProtocolEvent \/ reconnectToVpn \/ addSitesRoutes
      BY <2>5 DEF Timeout, Outside
    <3>2. calm => Report
      BY <1>1, <3>1, EventSays
    <3> QED BY <1>2, <2>3, <3>2 DEF Report, SteadyInv
  <2> QED BY <1>7, <2>4, <2>5
<1> QED BY <1>4, <1>5, <1>6, <1>7 DEF VpnTurn

\* Every step.
LEMMA SteadyStepKeeps ==
    ASSUME Plain, StackInv, ScreenInv, SteadyInv, [Next]_vars
    PROVE  SteadyInv'
<1>1. CASE UNCHANGED vars
  BY <1>1 DEF SteadyInv, Latest, ConnectPending, vars, controllerVars,
              historyVars
<1>2. CASE UiTurn \/ Validation \/ Budget \/ User
  <2>1. vpn' = vpn
    BY <1>2
    DEF UiTurn, DeliverState, DeliverError, DeliverOpen, Validation, Budget,
        User, vpnVars
  <2>2. Latest'
    BY <1>2, <2>1, UiCounts, CountedKeepsLatest DEF SteadyInv
  <2>3. calm' => Shaped(vpn)
    BY <1>2, UiCalmStarts, RestShaped DEF SteadyInv
  <2> QED BY <2>1, <2>2, <2>3 DEF SteadyInv
<1> QED BY <1>1, <1>2, VpnSteady DEF Next

LEMMA SteadyInitInv ==
    Init => SteadyInv
<1> SUFFICES ASSUME Init PROVE SteadyInv
  OBVIOUS
<1>1. Shaped(vpn) /\ vpn.attempt.no = 0
  BY VpnInitShaped, VpnInitTruthful DEF Init
<1>2. posted = <<>> /\ inbox = <<>> /\ launches = 0
  BY DEF Init, ControllerInit
<1> QED BY <1>1, <1>2 DEF SteadyInv, Latest, ConnectPending

-----------------------------------------------------------------------------
(* What holds of an opening that is left alone.                              *)

\* Nothing is asked for: the inbox tells of the attempt VpnConnection is at,
\* behind the tail of the one before while a switch is under way.
Followed ==
    (calm /\ ~ConnectPending) =>
        \E k \in 1..(Len(inbox) + 1) :
            /\ Fresh(inbox, k, vpn, active)
            /\ IF switching THEN k <= Len(inbox) /\ StateAt(inbox, k, {"Connecting"})
                            ELSE k = 1

\* A connection is asked for: the attempt before has ended.
Waiting ==
    (calm /\ ConnectPending) =>
        /\ Len(posted) = 1 /\ posted[1].op = "connect"
        /\ Ended(vpn) /\ Only(inbox, Over)
        /\ ~switching => inbox = <<>> /\ vpn.proc = "none"

\* Nothing but "Disconnected" is asked for, of a protocol that does not work.
Setting ==
    (calm /\ ~ConnectPending /\ posted # <<>>) =>
        /\ \A i \in 1..Len(posted) : posted[i] = SetState("Disconnected")
        /\ ~Live(vpn) /\ ~switching
        /\ active => /\ Len(posted) = 1 /\ inbox = <<>>
                     /\ Ended(vpn) /\ vpn.proc = "none"

\* The failover is over once the tunnel was up.
UpOnce == (calm /\ ui = "Connected") => ~active

CalmInv == /\ Followed /\ Waiting /\ Setting /\ UpOnce
           /\ calm => InPhase(vpn)

\* The whole invariant.
LoneInv == StackInv /\ ScreenInv /\ SteadyInv /\ CalmInv

\* Nothing is left to read in an empty inbox.
LEMMA FreshEmpty ==
    ASSUME NEW c, NEW act
    PROVE  Fresh(<<>>, 1, c, act)
<1>1. Len(<<>>) = 0
  OBVIOUS
<1> QED BY <1>1 DEF Fresh, OnlyFrom, Orderly, Settles

\* Requests at the end of the queue and at its head.
LEMMA PostedHead ==
    ASSUME posted \in Seq(Command), posted # <<>>
    PROVE  /\ Len(posted) \in Nat /\ Len(posted) >= 1 /\ Head(posted) = posted[1]
           /\ Len(Tail(posted)) = Len(posted) - 1
           /\ \A i \in 1..Len(Tail(posted)) :
                 i + 1 \in 1..Len(posted) /\ Tail(posted)[i] = posted[i + 1]
           /\ Len(posted) = 1 => Tail(posted) = <<>>
<1>1. /\ Len(posted) \in Nat /\ Len(posted) >= 1 /\ Head(posted) = posted[1]
      /\ Tail(posted) \in Seq(Command)
      /\ Len(Tail(posted)) = Len(posted) - 1
      /\ \A i \in 1..Len(Tail(posted)) : Tail(posted)[i] = posted[i + 1]
  BY HeadTailProperties, LenProperties
<1>2. Len(posted) = 1 => Tail(posted) = <<>>
  <2> DEFINE w == Tail(posted)
  <2>1. w \in Seq(Command) /\ Len(w) = Len(posted) - 1
    BY <1>1
  <2> HIDE DEF w
  <2>2. Len(w) = 0 => w = <<>>
    BY <2>1, EmptySeq
  <2> QED BY <2>1, <2>2 DEF w
<1> QED BY <1>1, <1>2

\* Where nothing is under way the tunnel is not up.
LEMMA RestIsIdle ==
    ASSUME LoneInv, Shaped(vpn), posted = <<>>, inbox' = <<>>,
           vpn.proc = "none",
           inbox' = inbox \/ (ReadFirst /\ Head(inbox).type # "state")
    PROVE  ui # "Connected"
<1>1. vpn \in VpnState /\ inbox \in Seq(Event)
  BY DEF LoneInv, StackInv, VpnOK, ControllerInv, ControllerTypeOK
<1>2. SUFFICES ASSUME ui = "Connected" PROVE FALSE
  OBVIOUS
<1>3. vpn.attempt.no # 0 /\ vpn.attempt.no \in Nat
  BY <1>1, <1>2 DEF LoneInv, ScreenInv, NotYetUp, VpnState, Attempt
<1>4. Tells(inbox, ui, vpn.state)
  BY <1>3 DEF LoneInv, ScreenInv, InStep, ConnectPending
<1>5. Tells(inbox', ui, vpn.state)
  BY <1>1, <1>4, FirstRead
<1>6. vpn.state = "Connected"
  BY <1>2, <1>5 DEF Tells, Heard
<1>7. vpn.kind # "none" /\ vpn.pstate = "Connected"
  BY <1>3, <1>6 DEF LoneInv, ScreenInv, Truthful, VpnTruth, Backed
<1> QED BY <1>1, <1>7 DEF Shaped, VpnState, ProtocolKind, Working

\* An opening that meets nothing under way.
LEMMA OpeningCalm ==
    ASSUME LoneInv, NEW rest \in BOOLEAN, openConnection(rest), UNCHANGED vpn,
           rest => /\ posted = <<>> /\ inbox' = <<>> /\ vpn.proc = "none"
                   /\ Shaped(vpn),
           inbox' = inbox \/ (ReadFirst /\ Head(inbox).type # "state")
    PROVE  CalmInv'
<1>1. calm' = rest /\ switching' = FALSE /\ ui' = ui /\ vpn' = vpn
  BY DEF openConnection, startFailover
<1>2. CASE ~rest
  BY <1>1, <1>2 DEF CalmInv, Followed, Waiting, Setting, UpOnce
<1>3. CASE rest
  <2>1. posted = <<>> /\ inbox' = <<>> /\ vpn.proc = "none" /\ Shaped(vpn)
    BY <1>3
  <2>2. /\ vpn \in VpnState /\ inbox \in Seq(Event)
        /\ posted \in Seq(Command) /\ defaultServer \in Servers
    BY DEF LoneInv, StackInv, VpnOK, ControllerInv, ControllerTypeOK
  <2>3. Ended(vpn) /\ ~Live(vpn) /\ InPhase(vpn)
    <3>1. ~Live(vpn)
      BY <2>1 DEF Live
    <3>2. vpn.kind # "none" => vpn.pstate # "Disconnecting"
      BY <2>1, <2>2 DEF Shaped, VpnState, ProtocolKind, Working
    <3> QED BY <3>1, <3>2 DEF Ended, InPhase
  <2>4. ui # "Connected"
    BY <2>1, RestIsIdle
  <2>5. Fresh(inbox', 1, vpn', active') /\ 1 \in 1..(Len(inbox') + 1)
    BY <2>1, FreshEmpty
  <2>6. Only(inbox', Over)
    BY <2>1 DEF Only
  <2>7. CASE posted' = Append(posted, Launch(defaultServer))
    <3>1. Launch(defaultServer).op = "connect"
      BY <2>2, LaunchCounts DEF LoneInv
    <3>2. posted' = <<Launch(defaultServer)>>
      BY <2>1, <2>7
    <3> HIDE DEF Launch
    <3>3. Len(posted') = 1 /\ posted'[1].op = "connect"
      BY <3>1, <3>2
    <3>4. ConnectPending'
      BY <3>3 DEF ConnectPending
    <3> QED BY <1>1, <2>1, <2>3, <2>4, <2>6, <3>3, <3>4
            DEF CalmInv, Followed, Waiting, Setting, UpOnce
  <2>8. CASE posted' = Append(posted, SetState("Disconnected"))
    <3>1. posted' = <<SetState("Disconnected")>>
      BY <2>1, <2>8
    <3>2. SetState("Disconnected").op # "connect"
      BY DEF SetState
    <3>3. Len(posted') = 1 /\ posted'[1] = SetState("Disconnected")
      BY <3>1 DEF SetState
    <3>4. ~ConnectPending'
      BY <3>2, <3>3 DEF ConnectPending
    <3>5. \A i \in 1..Len(posted') : posted'[i] = SetState("Disconnected")
      BY <3>3
    <3>6. Followed'
      BY <1>1, <2>5 DEF Followed
    <3> QED BY <1>1, <2>1, <2>3, <2>4, <3>3, <3>4, <3>5, <3>6
            DEF CalmInv, Waiting, Setting, UpOnce
  <2>9. CASE posted' = posted
    <3>1. ~ConnectPending' /\ posted' = <<>>
      BY <2>1, <2>9 DEF ConnectPending
    <3>2. Followed'
      BY <1>1, <2>5 DEF Followed
    <3> QED BY <1>1, <2>1, <2>3, <2>4, <3>1, <3>2
            DEF CalmInv, Waiting, Setting, UpOnce
  <2> QED BY <2>7, <2>8, <2>9, OpeningCounts DEF LoneInv
<1> QED BY <1>2, <1>3

\* handleConnectionState while the tail of a failed attempt is read.
LEMMA TailCalm ==
    ASSUME LoneInv, calm, DeliverState, switching, Head(inbox).state \in Over
    PROVE  CalmInv'
<1> DEFINE s == Head(inbox).state
<1>1. /\ inbox # <<>> /\ inbox \in Seq(Event) /\ UNCHANGED vpn
      /\ Head(inbox).type = "state"
      /\ \E code : HandleConnectionState(s, code)
  BY DEF DeliverState, NextEvent, LoneInv, StackInv, ControllerInv,
         ControllerTypeOK
<1>2. s \in {"Disconnected", "Error"}
  BY DEF Over
<1> HIDE DEF s
<1>3. TailIgnored(s)
  BY <1>1, <1>2
  DEF HandleConnectionState, AttemptStarted, TunnelUp, SubscriptionFailure,
      SwitchToBackup, AttemptEnded, Ignored
<1>4. /\ inbox' = Tail(inbox) /\ vpn' = vpn
      /\ UNCHANGED <<posted, calm, active, switching, ui>>
  BY <1>1, <1>3 DEF TailIgnored, controllerVars, failoverVars, uiVars, historyVars
<1>5. ConnectPending' <=> ConnectPending
  BY <1>4 DEF ConnectPending
<1>6. /\ Head(inbox) = inbox[1] /\ Len(inbox) \in Nat /\ Len(inbox) >= 1
      /\ Len(Tail(inbox)) = Len(inbox) - 1
      /\ \A i \in 1..Len(Tail(inbox)) : Tail(inbox)[i] = inbox[i + 1]
  BY <1>1, HeadTailProperties, LenProperties
<1>7. Followed'
  <2>1. SUFFICES ASSUME ~ConnectPending
                 PROVE  \E m \in 1..(Len(inbox') + 1) :
                           /\ Fresh(inbox', m, vpn, active)
                           /\ m <= Len(inbox') /\ StateAt(inbox', m, {"Connecting"})
    BY <1>4, <1>5 DEF Followed
  <2>2. PICK k \in 1..(Len(inbox) + 1) :
           /\ Fresh(inbox, k, vpn, active)
           /\ k <= Len(inbox) /\ StateAt(inbox, k, {"Connecting"})
    BY <2>1 DEF LoneInv, CalmInv, Followed
  <2>3. k > 1
    BY <1>2, <1>6, <2>2 DEF StateAt, s
  <2>4. /\ k - 1 \in 1..(Len(Tail(inbox)) + 1)
        /\ Fresh(Tail(inbox), k - 1, vpn, active)
        /\ k - 1 <= Len(Tail(inbox))
        /\ StateAt(Tail(inbox), k - 1, {"Connecting"})
    BY <1>1, <2>2, <2>3, FreshRead
  <2> QED BY <1>4, <2>4
<1>8. Only(inbox, Over) => Only(inbox', Over)
  BY <1>4, <1>6 DEF Only
<1> QED BY <1>4, <1>5, <1>7, <1>8
        DEF LoneInv, CalmInv, Waiting, Setting, UpOnce

\* handleConnectionState of the attempt's own signals.
LEMMA OwnStateCalm ==
    ASSUME LoneInv, calm, DeliverState, ~(switching /\ Head(inbox).state \in Over)
    PROVE  /\ CalmInv'
           /\ ~ConnectPending /\ Head(inbox).attempt = vpn.attempt
           /\ Head(inbox).state \in Working \cup Leaves
           /\ Fresh(inbox, 1, vpn, active)
<1> DEFINE s == Head(inbox).state
<1>1. /\ inbox # <<>> /\ inbox \in Seq(Event) /\ vpn' = vpn
      /\ posted \in Seq(Command)
      /\ Head(inbox).type = "state"
      /\ \E code : HandleConnectionState(s, code)
  BY DEF DeliverState, NextEvent, LoneInv, StackInv, ControllerInv,
         ControllerTypeOK
<1>2. PICK code : HandleConnectionState(s, code)
  BY <1>1
<1>3. /\ Head(inbox) = inbox[1] /\ Len(inbox) \in Nat /\ Len(inbox) >= 1
      /\ Len(Tail(inbox)) = Len(inbox) - 1 /\ Tail(inbox) \in Seq(Event)
      /\ \A i \in 1..Len(Tail(inbox)) : Tail(inbox)[i] = inbox[i + 1]
  BY <1>1, HeadTailProperties, LenProperties
<1>4. ~ConnectPending
  <2>1. SUFFICES ASSUME ConnectPending PROVE FALSE
    OBVIOUS
  <2>2. Only(inbox, Over) /\ switching
    BY <1>1, <2>1 DEF LoneInv, CalmInv, Waiting
  <2> QED BY <1>1, <1>3, <2>2 DEF Only
<1>5. PICK k \in 1..(Len(inbox) + 1) :
         /\ Fresh(inbox, k, vpn, active)
         /\ IF switching THEN k <= Len(inbox) /\ StateAt(inbox, k, {"Connecting"})
                         ELSE k = 1
  BY <1>4 DEF LoneInv, CalmInv, Followed
<1>6. k = 1
  <2>1. SUFFICES ASSUME k > 1 PROVE FALSE
    BY <1>3
  <2>2. s \in Over
    BY <1>1, <1>3, <1>5, <2>1 DEF Fresh
  <2> QED BY <1>5, <2>1, <2>2
<1>7. /\ Fresh(inbox, 1, vpn, active)
      /\ Head(inbox).attempt = vpn.attempt /\ s \in Working \cup Leaves
  BY <1>1, <1>3, <1>5, <1>6 DEF Fresh, OnlyFrom
<1>8. posted # <<>> => ~active /\ ~switching
  BY <1>1, <1>4 DEF LoneInv, CalmInv, Setting
<1> HIDE DEF s
<1>9. ASSUME NEW t, Show(t)
      PROVE  ui' = t /\ ReadFirst /\ (t # "Disconnected" => inbox' = Tail(inbox))
  BY <1>1, <1>9 DEF Show, ReadFirst
<1>10. ASSUME NEW act, act => active,
              act => s \notin {"Connected", "Disconnecting"}
       PROVE  Fresh(Tail(inbox), 1, vpn, act)
  <2>1. act => ~StateAt(inbox, 1, {"Connected", "Disconnecting"})
    BY <1>3, <1>10 DEF StateAt, s
  <2>2. 1 \in 1..(Len(inbox) + 1)
    BY <1>3
  <2> QED BY <1>1, <1>7, <1>10, <2>1, <2>2, FreshRead
<1>11. ASSUME ReadFirst, Fresh(Tail(inbox), 1, vpn, active'), ~switching',
              ~ConnectPending'
       PROVE  Followed'
  <2>1. OpenInvocation \in Event /\ OpenInvocation.type # "state"
    BY DEF OpenInvocation, Event
  <2>2. Fresh(inbox', 1, vpn, active') /\ 1 \in 1..(Len(inbox') + 1)
    <3>1. CASE inbox' = Tail(inbox)
      BY <1>3, <1>11, <3>1
    <3>2. CASE inbox' = Append(Tail(inbox), OpenInvocation)
      <4> DEFINE p == <<OpenInvocation>>
      <4>1. inbox' = Tail(inbox) \o p
        BY <1>3, <2>1, <3>2, AppendIsConcat
      <4>2. p \in Seq(Event) /\ Mute(p)
        BY <2>1 DEF Mute
      <4> HIDE DEF p
      <4>3. 1 \in 1..(Len(Tail(inbox)) + 1)
        BY <1>3
      <4>4. Fresh(Tail(inbox) \o p, 1, vpn, active')
        BY <1>3, <1>11, <4>2, <4>3, FreshMute
      <4>5. Len(inbox') = Len(Tail(inbox)) + 1
        BY <1>3, <2>1, <3>2, AppendProperties
      <4> QED BY <1>3, <4>1, <4>4, <4>5
    <3> QED BY <1>11, <3>1, <3>2 DEF ReadFirst
  <2> QED BY <1>1, <1>11, <2>2 DEF Followed
<1>12. CASE AttemptStarted(s)
  <2>1. /\ ui' = s /\ ReadFirst /\ switching' = FALSE /\ s # "Connected"
        /\ s \notin {"Connected", "Disconnecting"}
        /\ UNCHANGED <<posted, active, calm>>
    BY <1>9, <1>12 DEF AttemptStarted, historyVars
  <2>2. ~ConnectPending'
    BY <1>4, <2>1 DEF ConnectPending
  <2>3. Followed'
    BY <1>10, <1>11, <2>1, <2>2
  <2>4. Setting'
    BY <1>1, <1>4, <1>8, <2>1 DEF LoneInv, CalmInv, Setting
  <2>5. CalmInv'
    BY <1>1, <2>1, <2>2, <2>3, <2>4 DEF LoneInv, CalmInv, Waiting, UpOnce
  <2> QED BY <1>4, <1>7, <2>5 DEF s
<1>13. CASE TailIgnored(s)
  BY <1>13 DEF TailIgnored, Ignored, Over, s
<1>14. CASE TunnelUp(s)
  <2>1. /\ ReadFirst /\ switching' = FALSE /\ active' = FALSE
        /\ UNCHANGED <<posted, calm>>
    BY <1>9, <1>14 DEF TunnelUp, finishFailover
  <2>2. ~ConnectPending'
    BY <1>4, <2>1 DEF ConnectPending
  <2>3. Followed'
    BY <1>10, <1>11, <2>1, <2>2
  <2>4. Setting'
    BY <1>1, <1>4, <2>1 DEF LoneInv, CalmInv, Setting
  <2>5. CalmInv'
    BY <1>1, <2>1, <2>2, <2>3, <2>4 DEF LoneInv, CalmInv, Waiting, UpOnce
  <2> QED BY <1>4, <1>7, <2>5 DEF s
<1>15. CASE GiveUp(s)
  <2>1. /\ ReadFirst /\ switching' = FALSE /\ active' = FALSE /\ calm' = calm
        /\ posted' = posted \o ErrorReply(s)
    BY <1>9, <1>15 DEF GiveUp, finishFailover, historyVars
  <2>2. s = "Error" => ~Live(vpn)
    BY <1>1, <1>3, <1>7 DEF Fresh, StateAt, s
  <2>3. /\ SetState("Disconnected") \in Command
        /\ SetState("Disconnected").op # "connect"
    BY Requests DEF RequestedState, LoneInv
  <2>4. CASE s = "Error"
    <3>1. posted' = Append(posted, SetState("Disconnected"))
      BY <1>1, <2>1, <2>3, <2>4, AppendIsConcat DEF ErrorReply
    <3>2. ~ConnectPending'
      BY <1>1, <1>4, <2>3, <3>1, RequestPending
    <3>3. /\ Len(posted') = Len(posted) + 1 /\ Len(posted) \in Nat
          /\ posted'[Len(posted) + 1] = SetState("Disconnected")
          /\ \A i \in 1..Len(posted) : posted'[i] = posted[i]
      BY <1>1, <2>3, <3>1, AppendProperties, LenProperties
    <3>4. \A i \in 1..Len(posted) : posted[i] = SetState("Disconnected")
      <4>1. CASE posted = <<>>
        BY <4>1
      <4>2. CASE posted # <<>>
        BY <1>4, <4>2 DEF LoneInv, CalmInv, Setting
      <4> QED BY <4>1, <4>2
    <3>5. \A i \in 1..Len(posted') : posted'[i] = SetState("Disconnected")
      BY <3>3, <3>4
    <3>6. Followed'
      BY <1>10, <1>11, <2>1, <3>2
    <3>7. CalmInv'
      BY <1>1, <2>1, <2>2, <2>4, <3>2, <3>5, <3>6
      DEF LoneInv, CalmInv, Waiting, Setting, UpOnce
    <3> QED BY <1>4, <1>7, <3>7 DEF s
  <2>5. CASE s # "Error"
    <3>1. s # "Unknown"
      BY <1>7 DEF Working, Leaves, Over
    <3>2. posted' = posted
      BY <1>1, <2>1, <2>5, <3>1, ConcatEmptySeq DEF ErrorReply
    <3>3. ~ConnectPending'
      BY <1>4, <3>2 DEF ConnectPending
    <3>4. Followed'
      BY <1>10, <1>11, <2>1, <3>3
    <3>5. Setting'
      BY <1>1, <1>4, <2>1, <3>2 DEF LoneInv, CalmInv, Setting
    <3>6. CalmInv'
      BY <1>1, <2>1, <3>3, <3>4, <3>5
      DEF LoneInv, CalmInv, Waiting, UpOnce
    <3> QED BY <1>4, <1>7, <3>6 DEF s
  <2> QED BY <2>4, <2>5
<1>16. CASE SwitchToBackup(s, code)
  <2>1. /\ active /\ s \in Over /\ tryNextCandidate /\ Show("Connecting")
        /\ switching' = TRUE /\ UNCHANGED <<active, calm>>
    BY <1>16 DEF SwitchToBackup, tryNextCandidate, Failed, Over
  <2>2. ui' = "Connecting" /\ inbox' = Tail(inbox)
    BY <1>9, <2>1
  <2>3. posted = <<>>
    BY <1>8, <2>1
  <2>4. PICK n \in Launchable : /\ queue[n] \in Servers
                                /\ posted' = Append(posted, Launch(queue[n]))
    BY <2>1, CandidateLaunched DEF LoneInv
  <2>5. Launch(queue[n]).op = "connect"
    BY <2>4, LaunchCounts DEF LoneInv
  <2>6. posted' = <<Launch(queue[n])>>
    BY <2>3, <2>4
  <2>7. Len(posted') = 1 /\ posted'[1].op = "connect"
    <3> DEFINE x == Launch(queue[n])
    <3> HIDE DEF x
    <3> QED BY <2>5, <2>6 DEF x
  <2>8. ConnectPending'
    BY <2>7 DEF ConnectPending
  <2>9. Settles(inbox, 1, Over, {"Connected", "Disconnecting"}, Ended(vpn))
    BY <1>7, <2>1 DEF Fresh, Orderly
  <2>10. Final(inbox, 1, Over, {"Connected", "Disconnecting"}, 1)
    BY <1>1, <1>3, <2>1 DEF Final, StateAt, s
  <2>11. /\ Ended(vpn)
         /\ \A j \in 2..Len(inbox) :
               inbox[j].type = "state" => inbox[j].state \in Over
    BY <1>3, <2>9, <2>10 DEF Settles
  <2>12. Only(inbox', Over)
    BY <1>3, <2>2, <2>11 DEF Only
  <2>13. CalmInv'
    BY <1>1, <2>1, <2>2, <2>7, <2>8, <2>11, <2>12
    DEF LoneInv, CalmInv, Followed, Waiting, Setting, UpOnce
  <2> QED BY <1>4, <1>7, <2>13 DEF s
<1> QED BY <1>2, <1>12, <1>13, <1>14, <1>15, <1>16
        DEF HandleConnectionState, SubscriptionFailure, AttemptEnded

\* An error code is read.
LEMMA ErrorCalm ==
    ASSUME LoneInv, calm, DeliverError
    PROVE  CalmInv'
<1>1. /\ inbox # <<>> /\ inbox \in Seq(Event) /\ Head(inbox).type = "error"
      /\ inbox' = Tail(inbox) /\ vpn' = vpn
      /\ UNCHANGED <<posted, calm, active, switching, ui>>
  BY DEF DeliverError, NextEvent, HandleProtocolError, failoverVars, uiVars,
         historyVars, vpnVars, LoneInv, StackInv, ControllerInv,
         ControllerTypeOK
<1>2. ConnectPending' <=> ConnectPending
  BY <1>1 DEF ConnectPending
<1>3. /\ Head(inbox) = inbox[1] /\ Len(inbox) \in Nat /\ Len(inbox) >= 1
      /\ Len(Tail(inbox)) = Len(inbox) - 1
      /\ \A i \in 1..Len(Tail(inbox)) : Tail(inbox)[i] = inbox[i + 1]
  BY <1>1, HeadTailProperties, LenProperties
<1>4. Followed'
  <2>1. SUFFICES ASSUME ~ConnectPending
                 PROVE  \E m \in 1..(Len(inbox') + 1) :
                           /\ Fresh(inbox', m, vpn, active)
                           /\ IF switching
                              THEN /\ m <= Len(inbox')
                                   /\ StateAt(inbox', m, {"Connecting"})
                              ELSE m = 1
    BY <1>1, <1>2 DEF Followed
  <2>2. PICK k \in 1..(Len(inbox) + 1) :
           /\ Fresh(inbox, k, vpn, active)
           /\ IF switching
              THEN k <= Len(inbox) /\ StateAt(inbox, k, {"Connecting"})
              ELSE k = 1
    BY <2>1 DEF LoneInv, CalmInv, Followed
  <2>3. PICK m : m = IF k = 1 THEN 1 ELSE k - 1
    OBVIOUS
  <2>4. ~StateAt(inbox, 1, {"Connected", "Disconnecting"})
        /\ ~StateAt(inbox, 1, {"Connecting"})
    BY <1>1, <1>3 DEF StateAt
  <2>5. /\ m \in 1..(Len(Tail(inbox)) + 1) /\ Fresh(Tail(inbox), m, vpn, active)
        /\ \A X : (k > 1 /\ k <= Len(inbox) /\ StateAt(inbox, k, X))
                     => m <= Len(Tail(inbox)) /\ StateAt(Tail(inbox), m, X)
    BY <1>1, <2>2, <2>3, <2>4, FreshRead
  <2>6. CASE switching
    <3>1. k > 1
      BY <1>3, <2>2, <2>4, <2>6
    <3> QED BY <1>1, <2>2, <2>5, <2>6, <3>1
  <2>7. CASE ~switching
    BY <1>1, <2>2, <2>3, <2>5, <2>7
  <2> QED BY <2>6, <2>7
<1>5. Only(inbox, Over) => Only(inbox', Over)
  BY <1>1, <1>3 DEF Only
<1>6. Setting'
  BY <1>1, <1>2 DEF LoneInv, CalmInv, Setting
<1> QED BY <1>1, <1>2, <1>4, <1>5, <1>6
        DEF LoneInv, CalmInv, Waiting, UpOnce

\* Everything the user-interface thread does.
LEMMA UiCalm ==
    ASSUME Plain, LoneInv, UiTurn \/ Validation \/ Budget \/ User
    PROVE  CalmInv'
<1>1. ASSUME calm' = FALSE PROVE CalmInv'
  BY <1>1 DEF CalmInv, Followed, Waiting, Setting, UpOnce
<1>2. calm \in BOOLEAN
  BY DEF LoneInv, StackInv, ControllerInv, ControllerTypeOK
<1>3. ASSUME UNCHANGED <<posted, inbox, vpn, calm, switching, ui>>,
             active' => active
      PROVE  CalmInv'
  <2>1. ConnectPending' <=> ConnectPending
    BY <1>3 DEF ConnectPending
  <2>2. \A k : Fresh(inbox, k, vpn, active) => Fresh(inbox', k, vpn', active')
    BY <1>3 DEF Fresh
  <2>3. Followed'
    BY <1>3, <2>1, <2>2 DEF LoneInv, CalmInv, Followed
  <2> QED BY <1>3, <2>1, <2>3 DEF LoneInv, CalmInv, Waiting, Setting, UpOnce
<1>4. CASE DeliverState
  <2>1. UNCHANGED calm
    BY <1>4
    DEF DeliverState, HandleConnectionState, AttemptStarted, TailIgnored,
        TunnelUp, SubscriptionFailure, SwitchToBackup, AttemptEnded, GiveUp,
        controllerVars, historyVars
  <2>2. CASE calm
    BY <1>4, <2>2, TailCalm, OwnStateCalm
  <2> QED BY <1>1, <1>2, <2>1, <2>2
<1>5. CASE DeliverError
  <2>1. UNCHANGED calm
    BY <1>5 DEF DeliverError, HandleProtocolError, historyVars
  <2>2. CASE calm
    BY <1>5, <2>2, ErrorCalm
  <2> QED BY <1>1, <1>2, <2>1, <2>2
<1>6. CASE DeliverOpen
  <2> DEFINE rest == AtRest(Tail(inbox))
  <2>1. /\ openConnection(rest) /\ UNCHANGED vpn /\ ReadFirst
        /\ Head(inbox).type # "state" /\ inbox' = Tail(inbox)
        /\ rest \in BOOLEAN
    BY <1>6, RestIsBoolean
    DEF DeliverOpen, NextEvent, Reopen, ReadFirst, vpnVars
  <2>2. rest => /\ posted = <<>> /\ inbox' = <<>> /\ vpn.proc = "none"
                /\ Shaped(vpn)
    BY <2>1, RestShaped DEF AtRest, LoneInv
  <2> HIDE DEF rest
  <2> QED BY <2>1, <2>2, OpeningCalm
<1>7. ASSUME openConnection(AtRest(inbox)), UNCHANGED <<inbox, vpn>>
      PROVE  CalmInv'
  <2> DEFINE rest == AtRest(inbox)
  <2>1. rest \in BOOLEAN
    BY RestIsBoolean
  <2>2. rest => /\ posted = <<>> /\ inbox' = <<>> /\ vpn.proc = "none"
                /\ Shaped(vpn)
    BY <1>7, RestShaped DEF AtRest, LoneInv
  <2> HIDE DEF rest
  <2> QED BY <1>7, <2>1, <2>2, OpeningCalm DEF rest
<1>8. CASE Validation
  BY <1>1, <1>7, <1>8
  DEF Validation, ConfigValidated, ConfigRefused, RequestState, vpnVars
<1>9. CASE Budget
  <2>1. /\ UNCHANGED <<posted, inbox, vpn, calm, switching, ui>>
        /\ active' = FALSE
    BY <1>9 DEF Budget, BudgetFires, vpnVars, uiVars
  <2> QED BY <1>3, <2>1
<1>10. CASE User
  <2>1. UNCHANGED vpn
    BY <1>10 DEF User, vpnVars
  <2>2. CASE OpenClick
    BY <1>1, <1>7, <2>1, <2>2
    DEF OpenClick, ToggleOn, ToggleBlocked, ReconnectOpening, RequestState
  <2>3. CASE CloseClick
    BY <1>1, <2>3
    DEF CloseClick, ToggleOff, switchProto, ReconnectClosing, closeConnection
  <2>4. CASE \E s \in Servers : SetDefaultServer(s)
    BY <1>3, <2>1, <2>4 DEF SetDefaultServer, failoverVars, historyVars
  <2> QED BY <1>10, <2>2, <2>3, <2>4 DEF User
<1> QED BY <1>4, <1>5, <1>6, <1>8, <1>9, <1>10 DEF UiTurn

\* The VPN thread takes the attempt it was asked for.
LEMMA ConnectCalm ==
    ASSUME Plain, LoneInv, calm, DeliverConnect
    PROVE  CalmInv'
<1> DEFINE a == Head(posted).attempt
<1>1. /\ posted \in Seq(Command) /\ inbox \in Seq(Event) /\ posted # <<>>
      /\ VpnInv /\ vpn.out = <<>> /\ Shaped(vpn)
      /\ Head(posted).op = "connect" /\ connectToVpn(a)
      /\ posted' = Tail(posted)
      /\ UNCHANGED <<calm, active, switching, ui>>
  BY DEF LoneInv, StackInv, ControllerInv, ControllerTypeOK, VpnInv, ScreenInv,
         Truthful, SteadyInv, DeliverConnect, TakeCommand, controllerVars,
         failoverVars, uiVars, historyVars
<1>2. a \in Attempt
  BY <1>1, FirstCommand
<1> HIDE DEF a
<1>3. ConnectPending
  BY <1>1, PostedHead DEF ConnectPending
<1>4. /\ Len(posted) = 1 /\ Ended(vpn) /\ Only(inbox, Over)
      /\ ~switching => inbox = <<>>
  BY <1>3 DEF LoneInv, CalmInv, Waiting
<1>5. posted' = <<>>
  BY <1>1, <1>4, PostedHead
<1>6. PICK p \in Seq(Event) :
         /\ inbox' = inbox \o p /\ Fanfare(p, a)
         /\ \/ Live(vpn') /\ OnlyFrom(p, 1, {"Connecting"}, a)
            \/ Ended(vpn')
  BY <1>1, <1>2, <1>4, ConnectSays
<1>7. InPhase(vpn') /\ vpn'.attempt = a
  BY <1>1, <1>2, ConnectSays
<1>8. PICK k : k = Len(inbox) + 1
  OBVIOUS
<1>9. PICK d : d = vpn'
  OBVIOUS
<1>10. /\ Fresh(inbox', k, d, active) /\ k \in 1..Len(inbox')
       /\ StateAt(inbox', k, {"Connecting"})
  BY <1>1, <1>4, <1>6, <1>7, <1>8, <1>9, FreshStart
<1>11. Len(inbox') \in Nat /\ (~switching => k = 1)
  <2>1. inbox' \in Seq(Event)
    BY <1>1, <1>6, ConcatProperties
  <2> QED BY <1>4, <1>8, <2>1, LenProperties
<1>12. Followed'
  <2>1. k \in 1..(Len(inbox') + 1) /\ k <= Len(inbox')
    BY <1>10, <1>11
  <2> QED BY <1>1, <1>9, <1>10, <1>11, <2>1 DEF Followed
<1>13. ~ConnectPending'
  BY <1>5 DEF ConnectPending
<1> QED BY <1>1, <1>5, <1>7, <1>12, <1>13
        DEF LoneInv, CalmInv, Waiting, Setting, UpOnce

\* The VPN thread says "Disconnected" because it was asked to.
LEMMA SetStateCalm ==
    ASSUME Plain, LoneInv, calm, DeliverSetState
    PROVE  CalmInv'
<1>1. /\ posted \in Seq(Command) /\ inbox \in Seq(Event) /\ posted # <<>>
      /\ VpnInv /\ vpn.out = <<>> /\ Shaped(vpn)
      /\ Head(posted).op = "set" /\ posted' = Tail(posted)
      /\ Done(setConnectionState(vpn, Head(posted).state, vpn.attempt))
      /\ UNCHANGED <<calm, active, switching, ui>>
  BY DEF LoneInv, StackInv, ControllerInv, ControllerTypeOK, VpnInv, ScreenInv,
         Truthful, SteadyInv, DeliverSetState, TakeCommand, controllerVars,
         failoverVars, uiVars, historyVars
<1>2. ~ConnectPending
  BY <1>1, PostedHead DEF LoneInv, CalmInv, Waiting
<1>3. /\ \A i \in 1..Len(posted) : posted[i] = SetState("Disconnected")
      /\ ~Live(vpn) /\ ~switching
      /\ active => Len(posted) = 1 /\ Ended(vpn)
  BY <1>1, <1>2 DEF LoneInv, CalmInv, Setting
<1>4. Head(posted).state = "Disconnected"
  BY <1>1, <1>3, PostedHead DEF SetState
<1>5. "Disconnected" \in ConnectionState
  BY DEF ConnectionState
<1>6. /\ Spoken({"Disconnected"}, vpn.attempt) /\ vpn'.attempt = vpn.attempt
      /\ Live(vpn') <=> Live(vpn)
      /\ Ended(vpn') <=> Ended(vpn)
  BY <1>1, <1>4, <1>5, SetSays
<1>7. PICK p \in Seq(Event) :
         inbox' = inbox \o p /\ OnlyFrom(p, 1, {"Disconnected"}, vpn.attempt)
  BY <1>6 DEF Spoken
<1>8. /\ OnlyFrom(p, 1, Working \cup Leaves, vpn.attempt)
      /\ Only(p, Leaves) /\ Only(p, Over)
  BY <1>7 DEF OnlyFrom, Only, Leaves, Over
<1>9. Fresh(inbox, 1, vpn, active) /\ 1 \in 1..(Len(inbox) + 1)
  BY <1>2, <1>3 DEF LoneInv, CalmInv, Followed
<1>10. PICK d : d = vpn'
  OBVIOUS
<1>11. ASSUME active PROVE Orderly(inbox \o p, 1, d)
  <2>1. /\ Settles(inbox, 1, Leaves, {"Connected"}, ~Live(vpn))
        /\ Settles(inbox, 1, Over, {"Connected", "Disconnecting"}, Ended(vpn))
    BY <1>9, <1>11 DEF Fresh, Orderly
  <2>2. ~Live(d) /\ Ended(d)
    BY <1>3, <1>6, <1>10, <1>11
  <2>3. Settles(inbox \o p, 1, Leaves, {"Connected"}, ~Live(d))
    BY <1>1, <1>8, <1>9, <2>1, <2>2, SettlesOn
  <2>4. Settles(inbox \o p, 1, Over, {"Connected", "Disconnecting"}, Ended(d))
    BY <1>1, <1>8, <1>9, <2>1, <2>2, SettlesOn
  <2> QED BY <2>3, <2>4 DEF Orderly
<1>12. Fresh(inbox', 1, d, active)
  BY <1>1, <1>3, <1>6, <1>7, <1>8, <1>9, <1>10, <1>11, FreshOn
<1>13. ~ConnectPending' /\ \A i \in 1..Len(posted') : posted'[i] = SetState("Disconnected")
  <2>1. \A i \in 1..Len(posted') : posted'[i] = SetState("Disconnected")
    BY <1>1, <1>3, PostedHead
  <2> QED BY <2>1 DEF ConnectPending, SetState
<1>14. Followed'
  <2>1. 1 \in 1..(Len(inbox') + 1)
    BY <1>1, <1>7, ConcatPositions
  <2> QED BY <1>1, <1>3, <1>10, <1>12, <2>1 DEF Followed
<1>15. active => posted' = <<>>
  BY <1>1, <1>3, PostedHead
<1>16. Setting'
  BY <1>1, <1>3, <1>6, <1>13, <1>15 DEF Setting
<1>17. InPhase(vpn')
  BY <1>3, <1>6 DEF InPhase
<1> QED BY <1>1, <1>13, <1>14, <1>16, <1>17
        DEF LoneInv, CalmInv, Waiting, UpOnce

\* Events that reach the protocol.
LEMMA EventCalm ==
    ASSUME Plain, LoneInv, calm, Timeout \/ Outside
    PROVE  CalmInv'
<1>1. /\ posted \in Seq(Command) /\ inbox \in Seq(Event)
      /\ VpnInv /\ Truthful /\ Shaped(vpn)
  BY DEF LoneInv, StackInv, ControllerInv, ControllerTypeOK, VpnInv, ScreenInv,
         SteadyInv
<1>2. /\ onTimeout \/ ProtocolEvent \/ reconnectToVpn \/ addSitesRoutes
      /\ UNCHANGED <<posted, calm, active, switching, ui>>
  BY DEF Timeout, Outside, Unseen, controllerVars, failoverVars, uiVars,
         historyVars
<1>3. Report
  BY <1>1, <1>2, EventSays
<1>4. vpn.proc = "none" => inbox' = inbox /\ vpn'.proc = "none"
  BY <1>1, <1>2, IdleSilent
<1>5. ConnectPending' <=> ConnectPending
  BY <1>2 DEF ConnectPending
<1>6. InPhase(vpn')
  BY <1>3 DEF Report, LoneInv, CalmInv
<1>7. ~Live(vpn) => ~Live(vpn')
  BY <1>3 DEF Report, Ended
<1>8. Ended(vpn) => Ended(vpn')
  BY <1>3 DEF Report, Ended
<1>9. Waiting'
  <2>1. SUFFICES ASSUME ConnectPending
                 PROVE  /\ Ended(vpn') /\ Only(inbox', Over)
                        /\ ~switching => inbox' = <<>> /\ vpn'.proc = "none"
    BY <1>2, <1>5 DEF Waiting, LoneInv, CalmInv
  <2>2. /\ Ended(vpn) /\ Only(inbox, Over)
        /\ ~switching => inbox = <<>> /\ vpn.proc = "none"
    BY <2>1 DEF LoneInv, CalmInv, Waiting
  <2>3. Spoken({}, vpn.attempt) \/ Spoken(Over, vpn.attempt)
    BY <1>3, <2>2 DEF Report, Ended
  <2>4. Spoken(Over, vpn.attempt)
    BY <2>3 DEF Spoken, OnlyFrom
  <2>5. PICK p \in Seq(Event) : inbox' = inbox \o p /\ OnlyFrom(p, 1, Over, vpn.attempt)
    BY <2>4 DEF Spoken
  <2>6. Only(inbox', Over)
    <3> DEFINE w == inbox \o p
    <3>1. /\ Len(inbox) \in Nat /\ Len(p) \in Nat
          /\ Len(w) = Len(inbox) + Len(p)
          /\ \A i \in 1..Len(inbox) : w[i] = inbox[i]
          /\ \A i \in (Len(inbox) + 1)..Len(w) :
                i - Len(inbox) \in 1..Len(p) /\ w[i] = p[i - Len(inbox)]
      BY <1>1, ConcatPositions
    <3>2. inbox' = w
      BY <2>5
    <3> HIDE DEF w
    <3>3. ASSUME NEW i \in 1..Len(w), w[i].type = "state"
          PROVE  w[i].state \in Over
      <4>1. CASE i <= Len(inbox)
        BY <2>2, <3>1, <3>3, <4>1 DEF Only
      <4>2. CASE i > Len(inbox)
        <5>1. i \in (Len(inbox) + 1)..Len(w)
          BY <3>1, <4>2
        <5> QED BY <2>5, <3>1, <3>3, <5>1 DEF OnlyFrom
      <4> QED BY <3>1, <4>1, <4>2
    <3> QED BY <3>2, <3>3 DEF Only
  <2> QED BY <1>4, <1>8, <2>2, <2>6
<1>10. Setting'
  BY <1>2, <1>4, <1>5, <1>7, <1>8 DEF LoneInv, CalmInv, Setting
<1>11. Followed'
  <2>1. SUFFICES ASSUME ~ConnectPending
                 PROVE  \E k \in 1..(Len(inbox') + 1) :
                           /\ Fresh(inbox', k, vpn', active)
                           /\ IF switching
                              THEN /\ k <= Len(inbox')
                                   /\ StateAt(inbox', k, {"Connecting"})
                              ELSE k = 1
    BY <1>2, <1>5 DEF Followed
  <2>2. PICK k \in 1..(Len(inbox) + 1) :
           /\ Fresh(inbox, k, vpn, active)
           /\ IF switching
              THEN k <= Len(inbox) /\ StateAt(inbox, k, {"Connecting"})
              ELSE k = 1
    BY <2>1 DEF LoneInv, CalmInv, Followed
  <2>3. PICK p \in Seq(Event) : inbox' = inbox \o p
    BY <1>3 DEF Report, Spoken
  <2>4. /\ Len(inbox) \in Nat /\ Len(p) \in Nat
        /\ Len(inbox') = Len(inbox) + Len(p)
        /\ \A i \in 1..Len(inbox) : inbox'[i] = inbox[i]
    BY <1>1, <2>3, ConcatPositions
  <2>5. ASSUME active, Live(vpn), vpn.state = "Connected"
        PROVE  \E b \in k..Len(inbox) : StateAt(inbox, b, {"Connected"})
    <3>1. vpn.attempt.no > 0
      BY <1>1, <2>5 DEF Live, Truthful, VpnTruth, Made
    <3>2. Tells(inbox, ui, "Connected")
      BY <2>1, <2>5, <3>1 DEF LoneInv, ScreenInv, InStep
    <3>3. ui # "Connected"
      BY <2>5 DEF LoneInv, CalmInv, UpOnce
    <3>4. PICK b \in 1..Len(inbox) : Says(inbox, b, "Connected")
      BY <3>2, <3>3 DEF Tells, Heard
    <3>5. b >= k
      <4>1. SUFFICES ASSUME b < k PROVE FALSE
        BY <2>4
      <4>2. b \in 1..(k - 1)
        BY <2>4, <4>1
      <4> QED BY <2>2, <3>4, <4>2 DEF Fresh, Says, Over
    <3> QED BY <2>4, <3>4, <3>5 DEF StateAt, Says
  <2>6. Fresh(inbox', k, vpn', active)
    BY <1>1, <1>3, <2>2, <2>5, FreshReport
  <2>7. k \in 1..(Len(inbox') + 1)
    BY <2>4
  <2>8. switching => k <= Len(inbox') /\ StateAt(inbox', k, {"Connecting"})
    BY <2>2, <2>4 DEF StateAt
  <2> QED BY <2>2, <2>6, <2>7, <2>8
<1> QED BY <1>2, <1>6, <1>9, <1>10, <1>11 DEF LoneInv, CalmInv, UpOnce

\* Every step.
LEMMA CalmStepKeeps ==
    ASSUME Plain, LoneInv, [Next]_vars
    PROVE  CalmInv'
<1>1. CASE UNCHANGED vars
  BY <1>1 DEF LoneInv, CalmInv, Followed, Waiting, Setting, UpOnce,
              ConnectPending, vars, controllerVars, historyVars, uiVars,
              failoverVars
<1>2. CASE UiTurn \/ Validation \/ Budget \/ User
  BY <1>2, UiCalm
<1>3. CASE VpnTurn \/ Timeout \/ Outside
  <2>1. UNCHANGED calm
    BY <1>3
    DEF VpnTurn, DeliverConnect, DeliverDisconnect, DeliverSetState,
        TakeCommand, Timeout, Outside, Unseen, controllerVars, historyVars
  <2>2. CASE ~calm
    BY <2>1, <2>2 DEF CalmInv, Followed, Waiting, Setting, UpOnce
  <2>3. CASE calm
    <3>1. ~DeliverDisconnect
      <4>1. SUFFICES ASSUME DeliverDisconnect PROVE FALSE
        OBVIOUS
      <4>2. posted \in Seq(Command) /\ posted # <<>> /\ Head(posted).op = "disconnect"
        BY <4>1 DEF DeliverDisconnect, LoneInv, StackInv, ControllerInv, ControllerTypeOK
      <4>3. posted[1].op = "disconnect" /\ 1 \in 1..Len(posted)
        BY <4>2, PostedHead
      <4> QED BY <2>3, <4>2, <4>3 DEF LoneInv, CalmInv, Waiting, Setting, SetState
    <3> QED BY <1>3, <2>3, <3>1, ConnectCalm, SetStateCalm, EventCalm DEF VpnTurn
  <2> QED BY <2>2, <2>3
<1>4. CASE Misheard
  <2>1. calm' = FALSE
    BY <1>4, BesidesCalm
  <2> QED BY <2>1 DEF CalmInv, Followed, Waiting, Setting, UpOnce
<1> QED BY <1>1, <1>2, <1>3, <1>4 DEF Next

\* The whole invariant is inductive.
LEMMA LoneStepKeeps ==
    ASSUME Plain, LoneInv, [Next]_vars
    PROVE  LoneInv'
BY StackStepKeeps, ScreenStepKeeps, SteadyStepKeeps, CalmStepKeeps DEF LoneInv

LEMMA LoneInitInv ==
    Init => LoneInv
<1> SUFFICES ASSUME Init PROVE LoneInv
  OBVIOUS
<1>1. calm = FALSE
  BY DEF Init, ControllerInit
<1>2. CalmInv
  BY <1>1 DEF CalmInv, Followed, Waiting, Setting, UpOnce
<1> QED BY <1>2, StackInitInv, ScreenInitInv, SteadyInitInv DEF LoneInv

\* The invariant of an opening that is left alone, when no server uses Xray.
THEOREM LoneInvariant ==
    ASSUME \A s \in Servers : KindOf[s] # "Xray"
    PROVE  Spec => []LoneInv
<1>1. Plain
  BY DEF Plain
<1>2. LoneInv /\ [Next]_vars => LoneInv'
  BY <1>1, LoneStepKeeps
<1> QED BY <1>2, LoneInitInv, PTL DEF Spec

\* An opening that was left alone leaves no protocol at work behind a screen
\* that offers to connect (handleConnectionState, VpnProtocol::onTimeout,
\* failConnection), for any servers without Xray and any number of backups.
THEOREM IdleScreenIsIdle ==
    ASSUME \A s \in Servers : KindOf[s] # "Xray"
    PROVE  Spec => []IdleScreenIdleProtocol
<1>1. LoneInv => IdleScreenIdleProtocol
  <2> SUFFICES ASSUME LoneInv, Quiescent, calm, ui \in {"Disconnected", "Error"},
                      LiveProtocol
               PROVE  FALSE
    BY DEF IdleScreenIdleProtocol
  <2>1. Live(vpn) /\ vpn \in VpnState
    BY DEF LiveProtocol, Live, LoneInv, StackInv, VpnOK
  <2>2. vpn.attempt.no > 0
    BY <2>1 DEF Live, LoneInv, ScreenInv, Truthful, VpnTruth, Made
  <2>3. vpn.state = ui
    BY <2>2
    DEF LoneInv, ScreenInv, InStep, ConnectPending, Tells, Heard, Quiescent
  <2>4. vpn.pstate = vpn.state
    BY <2>1 DEF LoneInv, CalmInv, InPhase
  <2> QED BY <2>1, <2>3, <2>4
          DEF LoneInv, SteadyInv, Shaped, Live, VpnState, ProtocolKind, Working
<1> QED BY <1>1, LoneInvariant, PTL

\* While an opening is left alone, handleConnectionState launches a backup only
\* for a signal of the attempt launched last.
LEMMA ChargedOnce ==
    ASSUME LoneInv, DeliverState, calm, launches' # launches
    PROVE  Head(inbox).attempt.no = launches
<1>1. ~(switching /\ Head(inbox).state \in Over)
  <2>1. SUFFICES ASSUME switching, Head(inbox).state \in Over PROVE FALSE
    OBVIOUS
  <2>2. TailIgnored(Head(inbox).state)
    BY <2>1
    DEF DeliverState, HandleConnectionState, AttemptStarted, TunnelUp,
        SubscriptionFailure, SwitchToBackup, AttemptEnded, Ignored, Over
  <2> QED BY <2>2 DEF TailIgnored, controllerVars, historyVars
<1>2. ~ConnectPending /\ Head(inbox).attempt = vpn.attempt
  BY <1>1, OwnStateCalm
<1>3. ~LastConnect(posted, launches)
  BY <1>2 DEF LastConnect, ConnectPending
<1> QED BY <1>2, <1>3 DEF LoneInv, SteadyInv, Latest

\* No failure is charged twice: while an opening is left alone, a backup server
\* is launched only for a failure of the attempt launched last
\* (handleConnectionState, m_switching), for any servers without Xray and any
\* number of backups.
THEOREM NoFailureChargedTwice ==
    ASSUME \A s \in Servers : KindOf[s] # "Xray"
    PROVE  Spec => OneFailureOneCandidate
<1>1. LoneInv /\ [Next]_vars
        => [(DeliverState /\ calm /\ launches' # launches)
               => Head(inbox).attempt.no = launches]_vars
  BY ChargedOnce
<1> QED BY <1>1, LoneInvariant, PTL DEF Spec, OneFailureOneCandidate

-----------------------------------------------------------------------------
(* Which server an opening that is left alone is at. Until the tunnel was up *)
(* or the failover gave up, it is the one m_failoverIndex points at, and     *)
(* every server before it was tried.                                         *)

\* The server VpnConnection works on, or will.
Current == IF ConnectPending THEN posted[1].attempt.server
                             ELSE vpn.attempt.server

\* No protocol works, none is asked for and state s is not under way.
Silent(s) == ~ConnectPending /\ ~Live(vpn) /\ ~Mentions(inbox, s)

\* The server is the one asked for, one announced or the one the failover
\* stands at; or it never comes up any more.
Told ==
    (calm /\ ~overran) =>
        \/ Current \in {requested} \cup announced
        \/ active /\ queue[index] = Current
        \/ Silent("Connected")

\* Every server up to the current position was launched, if it can be.
Tried ==
    \A p \in 1..index :
        queue[p] \in Preparable
            => \E i \in DOMAIN launched : launched[i] = queue[p]

\* The failover leaves out no server that can be launched.
Walked == active => index >= 1 /\ Tried

\* The failover goes on, or tried everything, or the screen will not say
\* "Connecting" any more.
Trying ==
    (calm /\ ~overran /\ intent = "opening") =>
        \/ active
        \/ Exhausted
        \/ ui # "Connecting" /\ Silent("Connecting")

SearchInv == Told /\ BackupAnnounced /\ Trying

\* Reading the inbox breaks no silence.
LEMMA ReadSilent ==
    ASSUME LoneInv, ReadFirst, vpn' = vpn, ~ConnectPending', NEW s, Silent(s)
    PROVE  Silent(s)'
<1>1. inbox \in Seq(Event)
  BY DEF LoneInv, StackInv, ControllerInv, ControllerTypeOK
<1>2. ~Mentions(inbox, s)
  BY DEF Silent
<1>3. ~Mentions(inbox', s)
  BY <1>1, <1>2, FirstRead
<1> QED BY <1>3 DEF Silent

\* Nor does the VPN thread, which stays at its server.
LEMMA VpnSilent ==
    ASSUME Plain, LoneInv, calm, VpnTurn \/ Timeout \/ Outside
    PROVE  /\ Current' = Current
           /\ \A s \in Working : Silent(s) => Silent(s)'
<1>1. /\ posted \in Seq(Command) /\ inbox \in Seq(Event)
      /\ VpnInv /\ Truthful /\ vpn.out = <<>> /\ Shaped(vpn)
  BY DEF LoneInv, StackInv, ControllerInv, ControllerTypeOK, VpnInv, ScreenInv,
         Truthful, SteadyInv
<1>2. ASSUME NEW S, Spoken(S, vpn.attempt), S \cap Working = {},
             ~Live(vpn) => ~Live(vpn'), ~ConnectPending => ~ConnectPending',
             NEW s \in Working, Silent(s)
      PROVE  Silent(s)'
  <2>1. PICK p \in Seq(Event) : inbox' = inbox \o p /\ OnlyFrom(p, 1, S, vpn.attempt)
    BY <1>2 DEF Spoken
  <2>2. ~Mentions(p, s)
    BY <1>2, <2>1 DEF OnlyFrom, Mentions, Says
  <2>3. ~Mentions(inbox, s)
    BY <1>2 DEF Silent
  <2>4. ~Mentions(inbox', s)
    <3>1. \A t : Mentions(inbox \o p, t) <=> Mentions(inbox, t) \/ Mentions(p, t)
      BY <1>1, ConcatTold
    <3> QED BY <2>1, <2>2, <2>3, <3>1
  <2> QED BY <1>2, <2>4 DEF Silent
<1>3. CASE DeliverConnect
  <2> DEFINE a == Head(posted).attempt
  <2>1. /\ posted # <<>> /\ Head(posted).op = "connect" /\ connectToVpn(a)
        /\ posted' = Tail(posted)
    BY <1>3 DEF DeliverConnect, TakeCommand
  <2>2. a \in Attempt
    BY <1>1, <2>1, FirstCommand
  <2>3. a = posted[1].attempt /\ ConnectPending
    BY <1>1, <2>1, PostedHead DEF ConnectPending
  <2> HIDE DEF a
  <2>4. Len(posted) = 1
    BY <2>3 DEF LoneInv, CalmInv, Waiting
  <2>5. ~ConnectPending'
    BY <1>1, <2>1, <2>4, PostedHead DEF ConnectPending
  <2>6. vpn'.attempt = a
    BY <1>1, <2>1, <2>2, ConnectSays
  <2> QED BY <2>3, <2>5, <2>6 DEF Current, Silent
<1>4. ~DeliverDisconnect
  <2>1. SUFFICES ASSUME DeliverDisconnect PROVE FALSE
    OBVIOUS
  <2>2. posted # <<>> /\ Head(posted).op = "disconnect"
    BY <2>1 DEF DeliverDisconnect
  <2>3. posted[1].op = "disconnect" /\ 1 \in 1..Len(posted)
    BY <1>1, <2>2, PostedHead
  <2> QED BY <2>2, <2>3 DEF LoneInv, CalmInv, Waiting, Setting, SetState
<1>5. CASE DeliverSetState
  <2>1. /\ posted # <<>> /\ Head(posted).op = "set" /\ posted' = Tail(posted)
        /\ Done(setConnectionState(vpn, Head(posted).state, vpn.attempt))
    BY <1>5 DEF DeliverSetState, TakeCommand
  <2>2. ~ConnectPending
    BY <1>1, <2>1, PostedHead DEF LoneInv, CalmInv, Waiting
  <2>3. \A i \in 1..Len(posted) : posted[i] = SetState("Disconnected")
    BY <2>1, <2>2 DEF LoneInv, CalmInv, Setting
  <2>4. Head(posted).state = "Disconnected" /\ "Disconnected" \in ConnectionState
    BY <1>1, <2>1, <2>3, PostedHead DEF SetState, ConnectionState
  <2>5. /\ Spoken({"Disconnected"}, vpn.attempt) /\ vpn'.attempt = vpn.attempt
        /\ Live(vpn') <=> Live(vpn)
    BY <1>1, <2>1, <2>4, SetSays
  <2>6. ~ConnectPending'
    BY <1>1, <2>1, <2>3, PostedHead DEF ConnectPending, SetState
  <2>7. {"Disconnected"} \cap Working = {}
    BY DEF Working
  <2> QED BY <1>2, <2>2, <2>5, <2>6, <2>7 DEF Current
<1>6. CASE Timeout \/ Outside
  <2>1. /\ onTimeout \/ ProtocolEvent \/ reconnectToVpn \/ addSitesRoutes
        /\ posted' = posted
    BY <1>6 DEF Timeout, Outside, Unseen
  <2>2. Report
    BY <1>1, <2>1, EventSays
  <2>3. ConnectPending' <=> ConnectPending
    BY <2>1 DEF ConnectPending
  <2>4. Current' = Current
    BY <2>1, <2>2, <2>3 DEF Current, Report
  <2>5. ASSUME NEW s \in Working, Silent(s) PROVE Silent(s)'
    <3>1. ~Live(vpn) /\ ~Live(vpn')
      BY <2>2, <2>5 DEF Report, Silent, Ended
    <3>2. Spoken({}, vpn.attempt) \/ Spoken(Over, vpn.attempt)
      BY <2>2, <3>1 DEF Report
    <3>3. {} \cap Working = {} /\ Over \cap Working = {}
      BY DEF Working, Over
    <3> QED BY <1>2, <2>3, <2>5, <3>1, <3>2, <3>3
  <2> QED BY <2>4, <2>5
<1> QED BY <1>3, <1>4, <1>5, <1>6 DEF VpnTurn

\* The VPN thread, its timers and events.
LEMMA VpnSearches ==
    ASSUME Plain, LoneInv, SearchInv, VpnTurn \/ Timeout \/ Outside
    PROVE  SearchInv'
<1>1. /\ UNCHANGED <<calm, overran, requested, announced, active, index, queue,
                     launched, intent, ui, connectedVia>>
  BY DEF VpnTurn, DeliverConnect, DeliverDisconnect, DeliverSetState,
         TakeCommand, Timeout, Outside, Unseen, controllerVars, failoverVars,
         uiVars, historyVars
<1>2. calm => /\ Current' = Current
              /\ Silent("Connected") => Silent("Connected")'
              /\ Silent("Connecting") => Silent("Connecting")'
  <2>1. "Connected" \in Working /\ "Connecting" \in Working
    BY DEF Working
  <2> QED BY <2>1, VpnSilent
<1>3. BackupAnnounced'
  BY <1>1 DEF SearchInv, BackupAnnounced
<1>4. Told'
  BY <1>1, <1>2 DEF SearchInv, Told
<1>5. Exhausted => Exhausted'
  BY <1>1 DEF Exhausted
<1>6. Trying'
  BY <1>1, <1>2, <1>5 DEF SearchInv, Trying
<1> QED BY <1>3, <1>4, <1>6 DEF SearchInv

\* A step that changes nothing of the search.
LEMMA SearchUntouched ==
    ASSUME LoneInv, SearchInv, vpn' = vpn, inbox' = inbox \/ ReadFirst,
           UNCHANGED <<posted, calm, overran, requested, announced, active,
                       index, queue, launched, intent, ui, connectedVia>>
    PROVE  SearchInv'
<1>1. (ConnectPending' <=> ConnectPending) /\ Current' = Current
  BY DEF ConnectPending, Current
<1>2. ASSUME NEW s, Silent(s) PROVE Silent(s)'
  <2>1. CASE inbox' = inbox
    BY <1>1, <1>2, <2>1 DEF Silent
  <2>2. CASE ReadFirst
    <3>1. ~ConnectPending'
      BY <1>1, <1>2 DEF Silent
    <3> QED BY <1>2, <2>2, <3>1, ReadSilent
  <2> QED BY <2>1, <2>2
<1>3. BackupAnnounced'
  BY DEF SearchInv, BackupAnnounced
<1>4. Told'
  BY <1>1, <1>2 DEF SearchInv, Told
<1>5. Exhausted => Exhausted'
  BY DEF Exhausted
<1>6. Trying'
  BY <1>2, <1>5 DEF SearchInv, Trying
<1> QED BY <1>3, <1>4, <1>6 DEF SearchInv

\* The first server of the queue is launched by the opening, if it can be.
LEMMA OpeningWalks ==
    ASSUME StackInv, NEW rest, openConnection(rest)
    PROVE  Walked' /\ (active' \/ Exhausted')
<1> DEFINE cs == Candidates(defaultServer)
<1>1. /\ requested' = defaultServer /\ index' = 1 /\ queue' = cs
      /\ active' = (Len(cs) > 1)
  BY DEF openConnection, startFailover
<1>2. defaultServer \in Servers
  BY DEF StackInv, ControllerInv, ControllerTypeOK
<1>3. /\ cs[1] = defaultServer /\ Len(cs) \in Nat /\ Len(cs) >= 1
      /\ DOMAIN cs = 1..Len(cs)
  BY <1>2, CandidatesDistinct, ControllerAssumption, LenProperties
<1>4. Candidates(requested') = cs
  BY <1>1
<1> HIDE DEF cs
<1>5. defaultServer \in Preparable
         => \E i \in DOMAIN launched' : launched'[i] = defaultServer
  <2>1. CASE launched' = <<defaultServer>>
    <3>1. 1 \in DOMAIN launched' /\ launched'[1] = defaultServer
      BY <2>1
    <3> QED BY <3>1
  <2> QED BY <2>1, OpeningCounts
<1>6. Tried'
  BY <1>1, <1>3, <1>5 DEF Tried
<1>7. CASE Len(cs) > 1
  <2>1. (Len(cs) > 1) = TRUE
    BY <1>7
  <2>2. active' = TRUE
    BY <1>1, <2>1, Zenon
  <2>3. Walked'
    BY <1>1, <1>6 DEF Walked
  <2> QED BY <2>2, <2>3
<1>8. CASE Len(cs) = 1
  <2>1. Exhausted'
    BY <1>3, <1>4, <1>5, <1>8 DEF Exhausted
  <2> QED BY <1>1, <1>6, <2>1 DEF Walked
<1> QED BY <1>3, <1>7, <1>8

\* An opening starts the search.
LEMMA OpeningSearches ==
    ASSUME LoneInv, NEW rest \in BOOLEAN, openConnection(rest), vpn' = vpn,
           rest => /\ posted = <<>> /\ inbox' = <<>> /\ vpn.proc = "none"
                   /\ Shaped(vpn),
           inbox' = inbox \/ (ReadFirst /\ Head(inbox).type # "state")
    PROVE  SearchInv'
<1>1. /\ calm' = rest /\ ui' = ui /\ requested' = defaultServer /\ index' = 1
      /\ queue' = Candidates(defaultServer)
      /\ active' = (Len(Candidates(defaultServer)) > 1)
  BY DEF openConnection, startFailover
<1>2. defaultServer \in Servers
  BY DEF LoneInv, StackInv, ControllerInv, ControllerTypeOK
<1>3. CASE ~rest
  BY <1>1, <1>3 DEF SearchInv, Told, BackupAnnounced, Trying
<1>4. CASE rest
  <2>1. posted = <<>> /\ inbox' = <<>> /\ ~Live(vpn) /\ ui # "Connected"
    BY <1>4, RestIsIdle DEF Live
  <2>2. BackupAnnounced'
    BY <1>1, <2>1 DEF BackupAnnounced
  <2>3. Told'
    <3>1. CASE posted' = Append(posted, Launch(defaultServer))
      <4> DEFINE x == Launch(defaultServer)
      <4>1. x.op = "connect" /\ x.attempt.server = defaultServer
        BY <1>2, LaunchCounts DEF LoneInv
      <4> HIDE DEF x
      <4>2. posted' = <<x>>
        BY <2>1, <3>1 DEF x
      <4>3. Len(posted') = 1 /\ posted'[1] = x
        BY <4>2
      <4>4. ConnectPending'
        BY <4>1, <4>3 DEF ConnectPending
      <4>5. Current' = requested'
        BY <1>1, <4>1, <4>3, <4>4 DEF Current
      <4> QED BY <4>5 DEF Told
    <3>2. CASE posted' = posted \/ posted' = Append(posted, SetState("Disconnected"))
      <4>1. ~ConnectPending'
        <5>1. CASE posted' = posted
          BY <2>1, <5>1 DEF ConnectPending
        <5>2. CASE posted' = Append(posted, SetState("Disconnected"))
          <6>1. posted' = <<SetState("Disconnected")>>
            BY <2>1, <5>2
          <6>2. Len(posted') = 1 /\ posted'[1].op = "set"
            BY <6>1 DEF SetState
          <6> QED BY <6>2 DEF ConnectPending
        <5> QED BY <3>2, <5>1, <5>2
      <4>2. ~Mentions(inbox', "Connected")
        BY <2>1 DEF Mentions
      <4>3. Silent("Connected")'
        BY <2>1, <4>1, <4>2 DEF Silent
      <4> QED BY <4>3 DEF Told
    <3> QED BY <3>1, <3>2, OpeningCounts DEF LoneInv
  <2>4. Trying'
    BY OpeningWalks DEF Trying, LoneInv
  <2> QED BY <2>2, <2>3, <2>4 DEF SearchInv
<1> QED BY <1>3, <1>4

\* While the tail of a failed attempt is read nothing changes.
LEMMA TailSearches ==
    ASSUME LoneInv, SearchInv, DeliverState, switching, Head(inbox).state \in Over
    PROVE  SearchInv'
<1>1. TailIgnored(Head(inbox).state)
  BY DEF DeliverState, HandleConnectionState, AttemptStarted, TunnelUp,
         SubscriptionFailure, SwitchToBackup, AttemptEnded, Ignored, Over
<1>2. /\ inbox # <<>> /\ vpn' = vpn /\ connectedVia' = connectedVia
  BY DEF DeliverState, NextEvent, Over
<1>3. /\ inbox' = Tail(inbox)
      /\ UNCHANGED <<posted, calm, overran, requested, announced, active,
                     index, queue, launched, intent, ui>>
  BY <1>1 DEF TailIgnored, controllerVars, failoverVars, uiVars, historyVars
<1> QED BY <1>2, <1>3, SearchUntouched DEF ReadFirst

\* An attempt that leaves before its tunnel came up is silent from then on.
LEMMA LeavesSilent ==
    ASSUME LoneInv, inbox # <<>>, active, Fresh(inbox, 1, vpn, active),
           Head(inbox).type = "state", Head(inbox).state \in Leaves, ReadFirst,
           vpn' = vpn, ~ConnectPending', NEW s \in Working
    PROVE  Silent(s)'
<1>1. inbox \in Seq(Event)
  BY DEF LoneInv, StackInv, ControllerInv, ControllerTypeOK
<1>2. Head(inbox) = inbox[1] /\ Len(inbox) \in Nat /\ Len(inbox) >= 1
  BY <1>1, HeadTailProperties, LenProperties
<1>3. Settles(inbox, 1, Leaves, {"Connected"}, ~Live(vpn))
  BY DEF Fresh, Orderly
<1>4. Final(inbox, 1, Leaves, {"Connected"}, 1)
  BY <1>2 DEF Final, StateAt
<1>5. /\ ~Live(vpn)
      /\ \A j \in 2..Len(inbox) :
            inbox[j].type = "state" => inbox[j].state \in Leaves
  BY <1>2, <1>3, <1>4 DEF Settles
<1>6. s \notin Leaves
  BY DEF Working, Leaves, Over
<1>7. ~Mentions(inbox, s)
  BY <1>2, <1>5, <1>6 DEF Mentions, Says
<1>8. ~Mentions(inbox', s)
  BY <1>1, <1>7, FirstRead
<1> QED BY <1>5, <1>8 DEF Silent

\* The next candidate: everything before it was tried or cannot be.
LEMMA CandidateTried ==
    ASSUME StackInv, tryNextCandidate, UNCHANGED queue, Tried
    PROVE  Tried'
<1>1. /\ queue \in Seq(Servers) /\ Len(queue) \in Nat /\ index \in 0..Len(queue)
      /\ launched \in Seq(Servers) /\ Len(launched) \in Nat
      /\ DOMAIN launched = 1..Len(launched)
  BY LenProperties DEF StackInv, ControllerInv, ControllerTypeOK
<1>2. PICK k \in Launchable :
         /\ k \in 1..Len(queue) /\ k > index /\ queue[k] \in Servers
         /\ \A j \in Launchable : k <= j
         /\ index' = k /\ launched' = Append(launched, queue[k])
  BY CandidateLaunched
<1>3. PICK x : x = queue[k]
  OBVIOUS
<1>4. /\ Len(launched') = Len(launched) + 1 /\ launched'[Len(launched) + 1] = x
      /\ \A i \in 1..Len(launched) : launched'[i] = launched[i]
      /\ DOMAIN launched' = 1..(Len(launched) + 1)
  BY <1>1, <1>2, <1>3, AppendProperties, LenProperties
<1>5. ASSUME NEW p \in 1..k, queue[p] \in Preparable
      PROVE  \E i \in DOMAIN launched' : launched'[i] = queue[p]
  <2>1. CASE p <= index
    <3>1. PICK i \in DOMAIN launched : launched[i] = queue[p]
      BY <1>1, <1>5, <2>1 DEF Tried
    <3> QED BY <1>1, <1>4, <3>1
  <2>2. CASE p > index
    <3>1. p \in Launchable
      BY <1>1, <1>2, <1>5, <2>2 DEF Launchable
    <3>2. p = k
      BY <1>1, <1>2, <3>1
    <3> QED BY <1>1, <1>3, <1>4, <3>2
  <2> QED BY <1>1, <2>1, <2>2
<1> QED BY <1>2, <1>5 DEF Tried

\* No candidate is left: everything was tried.
LEMMA NothingLeft ==
    ASSUME StackInv, active, Tried, Launchable = {}
    PROVE  Exhausted
<1>1. /\ queue \in Seq(Servers) /\ Len(queue) \in Nat /\ index \in 0..Len(queue)
      /\ DOMAIN queue = 1..Len(queue) /\ queue = Candidates(requested)
  BY LenProperties
  DEF StackInv, ControllerInv, ControllerTypeOK, LaunchedFromQueue
<1>2. ASSUME NEW k \in 1..Len(queue), queue[k] \in Preparable
      PROVE  \E i \in DOMAIN launched : launched[i] = queue[k]
  <2>1. CASE k <= index
    BY <1>1, <1>2, <2>1 DEF Tried
  <2>2. CASE k > index
    BY <1>1, <1>2, <2>2 DEF Launchable
  <2> QED BY <1>1, <2>1, <2>2
<1> QED BY <1>1, <1>2 DEF Exhausted

\* handleConnectionState of the attempt's own signals.
LEMMA OwnStateSearches ==
    ASSUME LoneInv, Walked, SearchInv, calm, DeliverState,
           ~(switching /\ Head(inbox).state \in Over)
    PROVE  SearchInv'
<1> DEFINE s == Head(inbox).state
<1>1. /\ inbox # <<>> /\ inbox \in Seq(Event) /\ vpn' = vpn
      /\ posted \in Seq(Command) /\ Head(inbox).type = "state"
      /\ connectedVia' = IF s = "Connected" THEN Head(inbox).attempt
                                            ELSE connectedVia
      /\ \E code : HandleConnectionState(s, code)
  BY DEF DeliverState, NextEvent, LoneInv, StackInv, ControllerInv,
         ControllerTypeOK
<1>2. PICK code : HandleConnectionState(s, code)
  BY <1>1
<1>3. /\ ~ConnectPending /\ Head(inbox).attempt = vpn.attempt
      /\ s \in Working \cup Leaves /\ Fresh(inbox, 1, vpn, active)
  BY OwnStateCalm
<1>4. Current = vpn.attempt.server
  BY <1>3 DEF Current
<1>5. Mentions(inbox, s)
  <2>1. Head(inbox) = inbox[1] /\ Len(inbox) \in Nat /\ Len(inbox) >= 1
    BY <1>1, HeadTailProperties, LenProperties
  <2> QED BY <1>1, <2>1 DEF Mentions, Says
<1> HIDE DEF s
<1>6. ASSUME NEW t, Show(t) PROVE ui' = t /\ ReadFirst
  BY <1>1, <1>6 DEF Show, ReadFirst
<1>7. "Connected" \in Working /\ "Connecting" \in Working
  BY DEF Working
<1>8. CASE AttemptStarted(s)
  <2>1. /\ ui' = s /\ ReadFirst /\ s # "Connected"
        /\ UNCHANGED <<posted, calm, overran, requested, announced, active,
                       index, queue, launched, intent>>
    BY <1>6, <1>8 DEF AttemptStarted, historyVars
  <2>2. ~ConnectPending' /\ Current' = Current
    BY <1>1, <1>3, <2>1 DEF ConnectPending, Current
  <2>3. ASSUME NEW t, Silent(t) PROVE Silent(t)'
    BY <1>1, <2>1, <2>2, <2>3, ReadSilent
  <2>4. Told' /\ BackupAnnounced'
    BY <2>1, <2>2, <2>3 DEF SearchInv, Told, BackupAnnounced
  <2>5. Exhausted => Exhausted'
    BY <2>1 DEF Exhausted
  <2>6. Silent("Connecting") => s # "Connecting"
    BY <1>5 DEF Silent
  <2>7. Trying'
    BY <2>1, <2>3, <2>5, <2>6 DEF SearchInv, Trying
  <2> QED BY <2>4, <2>7 DEF SearchInv
<1>9. CASE TailIgnored(s)
  BY <1>9 DEF TailIgnored, Ignored, Over, s
<1>10. CASE TunnelUp(s)
  <2>1. /\ s = "Connected" /\ active' = FALSE
        /\ announced' = IF active /\ index > 1 /\ index <= Len(queue)
                        THEN announced \cup {queue[index]} ELSE announced
        /\ intent' # "opening" /\ UNCHANGED <<posted, calm, overran, requested>>
    BY <1>10 DEF TunnelUp, finishFailover
  <2>2. ~ConnectPending' /\ Current' = Current
    BY <1>1, <1>3, <2>1 DEF ConnectPending, Current
  <2>3. connectedVia'.server = Current
    BY <1>1, <1>3, <1>4, <2>1
  <2>4. ASSUME ~overran PROVE Current \in {requested} \cup announced'
    <3>1. ~Silent("Connected")
      BY <1>5, <2>1 DEF Silent
    <3>2. CASE Current \in {requested} \cup announced
      BY <2>1, <3>2
    <3>3. CASE active /\ queue[index] = Current
      <4>1. /\ index >= 1 /\ index \in 0..Len(queue) /\ Len(queue) \in Nat
            /\ queue = Candidates(requested) /\ requested \in Servers
        BY <3>3, LenProperties
        DEF LoneInv, StackInv, ControllerInv, ControllerTypeOK,
            LaunchedFromQueue, Walked
      <4>2. queue[1] = requested
        BY <4>1, CandidatesDistinct
      <4>3. index = 1 \/ (index > 1 /\ index <= Len(queue))
        BY <3>3, <4>1
      <4> QED BY <2>1, <3>3, <4>2, <4>3
    <3> QED BY <2>4, <3>1, <3>2, <3>3 DEF SearchInv, Told
  <2>5. Told'
    BY <2>1, <2>2, <2>4 DEF Told
  <2>6. BackupAnnounced'
    BY <2>1, <2>3, <2>4 DEF BackupAnnounced
  <2> QED BY <2>1, <2>5, <2>6 DEF SearchInv, Trying
<1>11. ASSUME GiveUp(s), s \in Leaves PROVE SearchInv'
  <2>1. /\ ui' = s /\ ReadFirst /\ active' = FALSE
        /\ posted' = posted \o ErrorReply(s)
        /\ UNCHANGED <<calm, overran, requested, announced, launched, intent>>
    BY <1>6, <1>11 DEF GiveUp, finishFailover, historyVars
  <2>2. s # "Connected" /\ s # "Connecting"
    BY <1>11 DEF Leaves, Over
  <2>3. ~ConnectPending'
    <3>1. /\ SetState("Disconnected") \in Command
          /\ SetState("Disconnected").op # "connect"
      BY Requests DEF RequestedState, LoneInv
    <3>2. CASE posted' = Append(posted, SetState("Disconnected"))
      BY <1>1, <1>3, <3>1, <3>2, RequestPending
    <3>3. CASE posted' = posted
      BY <1>3, <3>3 DEF ConnectPending
    <3>4. \/ posted' = Append(posted, SetState("Disconnected"))
          \/ posted' = posted
      BY <1>1, <2>1, <3>1, AppendIsConcat, ConcatEmptySeq DEF ErrorReply
    <3> QED BY <3>2, <3>3, <3>4
  <2>4. Current' = Current
    BY <1>1, <1>4, <2>3 DEF Current
  <2>5. ASSUME NEW t, Silent(t) PROVE Silent(t)'
    BY <1>1, <2>1, <2>3, <2>5, ReadSilent
  <2>6. active => Silent("Connected")' /\ Silent("Connecting")'
    BY <1>1, <1>3, <1>7, <1>11, <2>1, <2>3, LeavesSilent DEF s
  <2>7. BackupAnnounced'
    BY <2>1, <2>2 DEF BackupAnnounced
  <2>8. Told'
    BY <2>1, <2>4, <2>5, <2>6 DEF SearchInv, Told
  <2>9. Exhausted => Exhausted'
    BY <2>1 DEF Exhausted
  <2>10. Trying'
    BY <2>1, <2>2, <2>5, <2>6, <2>9 DEF SearchInv, Trying
  <2> QED BY <2>7, <2>8, <2>10 DEF SearchInv
<1>12. CASE SwitchToBackup(s, code)
  <2>1. /\ active /\ active' = active /\ tryNextCandidate /\ Show("Connecting")
        /\ UNCHANGED <<calm, overran, requested, announced, queue, intent>>
    BY <1>12 DEF SwitchToBackup, tryNextCandidate
  <2>2. ui' = "Connecting"
    BY <1>6, <2>1
  <2>3. PICK k \in Launchable :
           /\ k \in 1..Len(queue) /\ k > index /\ queue[k] \in Servers
           /\ index' = k /\ posted' = Append(posted, Launch(queue[k]))
    BY <2>1, CandidateLaunched DEF LoneInv
  <2>4. posted = <<>>
    BY <1>3, <2>1, <1>1 DEF LoneInv, CalmInv, Setting
  <2> DEFINE x == Launch(queue[k])
  <2>5. x.op = "connect" /\ x.attempt.server = queue[k]
    BY <2>3, LaunchCounts DEF LoneInv
  <2>6. posted' = <<x>>
    BY <2>3, <2>4
  <2> HIDE DEF x
  <2>7. Len(posted') = 1 /\ posted'[1] = x
    BY <2>6
  <2>8. ConnectPending'
    BY <2>5, <2>7 DEF ConnectPending
  <2>9. Current' = queue[k]
    BY <2>5, <2>7, <2>8 DEF Current
  <2>10. queue'[index'] = Current'
    BY <2>1, <2>3, <2>9
  <2>11. Told' /\ BackupAnnounced'
    BY <2>1, <2>2, <2>10 DEF Told, BackupAnnounced
  <2>12. Trying'
    BY <2>1 DEF Trying
  <2> QED BY <2>11, <2>12 DEF SearchInv
<1>13. CASE SubscriptionFailure(s, code)
  <2>1. s \in Leaves
    BY <1>13 DEF SubscriptionFailure, Failed, Leaves, Over
  <2> QED BY <1>11, <1>13, <2>1 DEF SubscriptionFailure
<1>14. CASE AttemptEnded(s, code)
  <2>1. s \in Leaves
    BY <1>3, <1>14 DEF AttemptEnded, Working
  <2> QED BY <1>11, <1>14, <2>1 DEF AttemptEnded
<1> QED BY <1>2, <1>8, <1>9, <1>10, <1>12, <1>13, <1>14
        DEF HandleConnectionState

\* Every step leaves out no candidate.
LEMMA WalkedStepKeeps ==
    ASSUME StackInv, Walked, [Next]_vars
    PROVE  Walked'
<1>1. ASSUME active' = FALSE PROVE Walked'
  BY <1>1 DEF Walked
<1>2. ASSUME UNCHANGED <<active, index, queue, launched>> PROVE Walked'
  BY <1>2 DEF Walked, Tried
<1>3. ASSUME NEW rest, openConnection(rest) PROVE Walked'
  BY <1>3, OpeningWalks
<1>4. CASE DeliverState
  <2>1. PICK s, code : HandleConnectionState(s, code)
    BY <1>4 DEF DeliverState
  <2>2. CASE AttemptStarted(s) \/ TailIgnored(s)
    BY <1>2, <2>2
    DEF AttemptStarted, TailIgnored, controllerVars, failoverVars, historyVars
  <2>3. CASE TunnelUp(s)
    BY <1>1, <2>3 DEF TunnelUp, finishFailover
  <2>4. CASE GiveUp(s)
    BY <1>1, <2>4 DEF GiveUp, finishFailover
  <2>5. CASE SwitchToBackup(s, code)
    <3>1. active /\ tryNextCandidate /\ queue' = queue
      BY <2>5 DEF SwitchToBackup, tryNextCandidate
    <3>2. Tried'
      BY <3>1, CandidateTried DEF Walked
    <3>3. index' >= 1
      <4>1. PICK k \in Launchable : k \in 1..Len(queue) /\ index' = k
        BY <3>1, CandidateLaunched
      <4> QED BY <4>1
    <3> QED BY <3>2, <3>3 DEF Walked
  <2> QED BY <2>1, <2>2, <2>3, <2>4, <2>5
          DEF HandleConnectionState, SubscriptionFailure, AttemptEnded
<1>5. CASE DeliverError \/ DeliverOpen
  BY <1>2, <1>3, <1>5
  DEF DeliverError, HandleProtocolError, DeliverOpen, Reopen, failoverVars,
      historyVars
<1>6. CASE Validation
  BY <1>2, <1>3, <1>6
  DEF Validation, ConfigValidated, ConfigRefused, RequestState, failoverVars
<1>7. CASE Budget
  BY <1>1, <1>7 DEF Budget, BudgetFires
<1>8. CASE User
  BY <1>2, <1>3, <1>8
  DEF User, OpenClick, ToggleOn, ToggleBlocked, ReconnectOpening, RequestState,
      CloseClick, ToggleOff, switchProto, ReconnectClosing, closeConnection,
      SetDefaultServer, failoverVars, historyVars
<1>9. CASE VpnTurn \/ Timeout \/ Outside \/ UNCHANGED vars
  BY <1>2, <1>9
  DEF VpnTurn, DeliverConnect, DeliverDisconnect, DeliverSetState, TakeCommand,
      Timeout, Outside, Unseen, vars, controllerVars, failoverVars, historyVars
<1>10. CASE Misheard
  BY <1>2, <1>10 DEF Misheard, failoverVars
<1> QED BY <1>4, <1>5, <1>6, <1>7, <1>8, <1>9, <1>10 DEF Next, UiTurn

\* Everything the user-interface thread does.
LEMMA UiSearches ==
    ASSUME Plain, LoneInv, Walked, SearchInv, UiTurn \/ Validation \/ Budget \/ User
    PROVE  SearchInv'
<1>1. ASSUME calm' = FALSE \/ overran' = TRUE PROVE SearchInv'
  BY <1>1 DEF SearchInv, Told, BackupAnnounced, Trying
<1>2. calm \in BOOLEAN
  BY DEF LoneInv, StackInv, ControllerInv, ControllerTypeOK
<1>3. CASE DeliverState
  <2>1. UNCHANGED calm
    BY <1>3
    DEF DeliverState, HandleConnectionState, AttemptStarted, TailIgnored,
        TunnelUp, SubscriptionFailure, SwitchToBackup, AttemptEnded, GiveUp,
        controllerVars, historyVars
  <2>2. CASE calm
    BY <1>3, <2>2, TailSearches, OwnStateSearches
  <2> QED BY <1>1, <1>2, <2>1, <2>2
<1>4. CASE DeliverError
  <2>1. ReadFirst /\ vpn' = vpn /\ connectedVia' = connectedVia
        /\ UNCHANGED <<posted, calm, overran, requested, announced, active,
                       index, queue, launched, intent, ui>>
    BY <1>4
    DEF DeliverError, NextEvent, HandleProtocolError, ReadFirst, failoverVars,
        uiVars, historyVars, vpnVars
  <2> QED BY <2>1, SearchUntouched
<1>5. CASE DeliverOpen
  <2> DEFINE rest == AtRest(Tail(inbox))
  <2>1. /\ openConnection(rest) /\ vpn' = vpn /\ ReadFirst
        /\ Head(inbox).type # "state" /\ inbox' = Tail(inbox)
        /\ rest \in BOOLEAN
    BY <1>5, RestIsBoolean
    DEF DeliverOpen, NextEvent, Reopen, ReadFirst, vpnVars
  <2>2. rest => /\ posted = <<>> /\ inbox' = <<>> /\ vpn.proc = "none"
                /\ Shaped(vpn)
    BY <2>1, RestShaped DEF AtRest, LoneInv
  <2> HIDE DEF rest
  <2> QED BY <2>1, <2>2, OpeningSearches
<1>6. ASSUME openConnection(AtRest(inbox)), UNCHANGED <<inbox, vpn>>
      PROVE  SearchInv'
  <2> DEFINE rest == AtRest(inbox)
  <2>1. rest \in BOOLEAN
    BY RestIsBoolean
  <2>2. rest => /\ posted = <<>> /\ inbox' = <<>> /\ vpn.proc = "none"
                /\ Shaped(vpn)
    BY <1>6, RestShaped DEF AtRest, LoneInv
  <2> HIDE DEF rest
  <2> QED BY <1>6, <2>1, <2>2, OpeningSearches DEF rest
<1>7. CASE Validation
  BY <1>1, <1>6, <1>7
  DEF Validation, ConfigValidated, ConfigRefused, RequestState, vpnVars
<1>8. CASE Budget
  BY <1>1, <1>8 DEF Budget, BudgetFires
<1>9. CASE User
  <2>1. vpn' = vpn /\ connectedVia' = connectedVia
    BY <1>9 DEF User, vpnVars
  <2>2. CASE OpenClick
    BY <1>1, <1>6, <2>1, <2>2
    DEF OpenClick, ToggleOn, ToggleBlocked, ReconnectOpening, RequestState
  <2>3. CASE CloseClick
    BY <1>1, <2>3
    DEF CloseClick, ToggleOff, switchProto, ReconnectClosing, closeConnection
  <2>4. CASE \E s \in Servers : SetDefaultServer(s)
    <3>1. /\ inbox' = inbox
          /\ UNCHANGED <<posted, calm, overran, requested, announced, active,
                         index, queue, launched, intent, ui>>
      BY <2>4 DEF SetDefaultServer, failoverVars, historyVars
    <3> QED BY <2>1, <3>1, SearchUntouched
  <2> QED BY <1>9, <2>2, <2>3, <2>4 DEF User
<1> QED BY <1>3, <1>4, <1>5, <1>7, <1>8, <1>9 DEF UiTurn

FailoverInv == LoneInv /\ Walked /\ SearchInv

LEMMA FailoverStepKeeps ==
    ASSUME Plain, FailoverInv, [Next]_vars
    PROVE  FailoverInv'
<1>1. LoneInv' /\ Walked'
  BY LoneStepKeeps, WalkedStepKeeps DEF FailoverInv, LoneInv
<1>2. CASE UNCHANGED vars
  <2>1. /\ vpn' = vpn /\ inbox' = inbox
        /\ UNCHANGED <<posted, calm, overran, requested, announced, active,
                       index, queue, launched, intent, ui, connectedVia>>
    BY <1>2 DEF vars, controllerVars, failoverVars, uiVars, historyVars
  <2> QED BY <1>1, <2>1, SearchUntouched DEF FailoverInv
<1>3. CASE UiTurn \/ Validation \/ Budget \/ User
  BY <1>1, <1>3, UiSearches DEF FailoverInv
<1>4. CASE VpnTurn \/ Timeout \/ Outside
  BY <1>1, <1>4, VpnSearches DEF FailoverInv
<1>5. CASE Misheard
  <2>1. calm' = FALSE
    BY <1>5, BesidesCalm
  <2> QED BY <1>1, <2>1 DEF FailoverInv, SearchInv, Told, BackupAnnounced, Trying
<1> QED BY <1>2, <1>3, <1>4, <1>5 DEF Next

LEMMA FailoverInitInv ==
    Init => FailoverInv
<1> SUFFICES ASSUME Init PROVE FailoverInv
  OBVIOUS
<1>1. calm = FALSE /\ active = FALSE
  BY DEF Init, ControllerInit
<1> QED BY <1>1, LoneInitInv
        DEF FailoverInv, Walked, SearchInv, Told, BackupAnnounced, Trying

\* The invariant of the search for a server that answers, while an opening is
\* left alone: which server the failover stands at and what it has tried.
THEOREM FailoverInvariant ==
    ASSUME \A s \in Servers : KindOf[s] # "Xray"
    PROVE  Spec => []FailoverInv
<1>1. Plain
  BY DEF Plain
<1>2. FailoverInv /\ [Next]_vars => FailoverInv'
  BY <1>1, FailoverStepKeeps
<1> QED BY <1>2, FailoverInitInv, PTL DEF Spec

\* Whoever is connected through another server than the one asked for has been
\* told so by switchedToBackup, when the opening was left alone and the time
\* budget did not run out (handleConnectionState, tryNextCandidate), for any
\* servers without Xray and any number of backups.
THEOREM BackupsAreAnnounced ==
    ASSUME \A s \in Servers : KindOf[s] # "Xray"
    PROVE  Spec => []BackupAnnounced
<1>1. FailoverInv => BackupAnnounced
  BY DEF FailoverInv, SearchInv
<1> QED BY <1>1, FailoverInvariant, PTL

\* An error ends the search only when nothing is left.
LEMMA ErrorExhausted ==
    ASSUME FailoverInv, DeliverState, ui = "Connecting", ui' = "Error",
           intent = "opening", calm, ~overran,
           ~isSubscriptionError(lastConnectionError(VpnLastError))
    PROVE  Exhausted
<1> DEFINE s == Head(inbox).state
           code == lastConnectionError(VpnLastError)
<1>1. HandleConnectionState(s, code)
  BY DEF DeliverState
<1>2. ~isSubscriptionError(code)
  BY DEF code
<1> HIDE DEF s, code
<1>3. ~AttemptStarted(s) /\ ~TailIgnored(s) /\ ~TunnelUp(s)
      /\ ~SwitchToBackup(s, code)
  BY DEF AttemptStarted, TailIgnored, TunnelUp, SwitchToBackup, Show,
         controllerVars, uiVars
<1>4. AttemptEnded(s, code)
  BY <1>1, <1>2, <1>3 DEF HandleConnectionState, SubscriptionFailure
<1>5. s = "Error"
  BY <1>4 DEF AttemptEnded, GiveUp, Show
<1>6. CannotTryNext
  BY <1>4, <1>5 DEF AttemptEnded, Failed
<1>7. active \/ Exhausted
  BY DEF FailoverInv, SearchInv, Trying
<1>8. CASE active
  BY <1>6, <1>8, NothingLeft DEF CannotTryNext, FailoverInv, LoneInv, Walked
<1> QED BY <1>7, <1>8

\* "Connecting" turns into an error only after every server of the queue that
\* can be prepared was tried, when the opening was left alone, the tunnel never
\* came up, time did not run out and the code the failure is judged by is none
\* of the subscription API (handleConnectionState, tryNextCandidate),
\* for any servers without Xray and any number of backups.
THEOREM ErrorsComeLast ==
    ASSUME \A s \in Servers : KindOf[s] # "Xray"
    PROVE  Spec => ErrorOnlyWhenExhausted
<1>1. FailoverInv /\ [Next]_vars
        => [(/\ DeliverState /\ ui = "Connecting" /\ ui' = "Error"
             /\ intent = "opening" /\ calm /\ ~overran
             /\ ~isSubscriptionError(lastConnectionError(VpnLastError)))
                => Exhausted]_vars
  BY ErrorExhausted
<1> QED BY <1>1, FailoverInvariant, PTL DEF Spec, ErrorOnlyWhenExhausted

=============================================================================
