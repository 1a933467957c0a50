------------------------- MODULE ConnectionController -------------------------
(***************************************************************************)
(* The user-interface thread: ConnectionController, which walks a queue of  *)
(* backup servers when an attempt fails, and ConnectionUiController, which  *)
(* turns clicks into requests and states into what the user sees.           *)
(*                                                                          *)
(* Requests to VpnConnection are queued signals: posted is the event queue  *)
(* of the VPN thread. Its states and error codes come back through inbox,   *)
(* the event queue of this thread, in the order they were emitted.          *)
(*                                                                          *)
(* m_failoverIndex counts from 0 in the code, with -1 for "no failover";    *)
(* here it counts from 1, with 0 for "no failover".                         *)
(***************************************************************************)
EXTENDS VpnCommon

CONSTANTS kMaxAttempts,      \* 3 in startFailover
          MaxClicks          \* bound: user actions in one behaviour

ASSUME ControllerAssumption ==
    /\ kMaxAttempts \in Nat \ {0}
    /\ MaxClicks \in Nat

VARIABLES
    queue,              \* m_failoverQueue
    index,              \* m_failoverIndex
    active,             \* m_failoverActive
    wasConnecting,      \* m_wasConnecting
    switching,          \* m_switching
    lastProtocolError,  \* m_lastProtocolError
    budget,             \* m_failoverBudget is running
    ui,                 \* ConnectionUiController::m_state
    pendingReconnect,   \* m_pendingReconnect
    validating,         \* validations of a config not finished yet
    clicks,             \* user actions so far
    launches,           \* history: number of openConnectionRequested signals
    requested,          \* history: server of the last openConnection
    announced,          \* history: servers named by switchedToBackup since
    overran,            \* history: the budget fired since the last open
    calm,               \* history: the last open met nothing under way,
                        \* nothing else was asked for since, and no report
                        \* of the daemon on an activation given up was
                        \* taken for one on the current
    launched,           \* history: servers launched since the last open
    intent              \* history: last thing asked for or reached

failoverVars == <<queue, index, active, wasConnecting, switching, budget>>
uiVars == <<ui, pendingReconnect, validating, clicks>>
historyVars == <<launches, requested, announced, overran, calm, launched,
                 intent>>
controllerVars == <<failoverVars, lastProtocolError, uiVars, historyVars,
                    defaultServer>>

-----------------------------------------------------------------------------
(* The failover queue. *)

Smaller(a, b) == IF a < b THEN a ELSE b

Position(s) == CHOOSE i \in DOMAIN OrderedServerIds : OrderedServerIds[i] = s

\* The requested server first, the others in list order, kMaxAttempts at most.
Candidates(s) ==
    [i \in 1..Smaller(kMaxAttempts, Len(OrderedServerIds)) |->
        IF i = 1 THEN s
        ELSE IF i <= Position(s) THEN OrderedServerIds[i - 1]
        ELSE OrderedServerIds[i]]

\* rest says whether anything of an earlier attempt may still be heard of.
startFailover(s, rest) ==
    /\ queue' = Candidates(s)
    /\ index' = 1
    /\ active' = (Len(Candidates(s)) > 1)
    /\ wasConnecting' = FALSE
    /\ switching' = FALSE
    /\ lastProtocolError' = NoError
    /\ budget' = (budget \/ Len(Candidates(s)) > 1)
    /\ requested' = s
    /\ announced' = {}
    /\ overran' = FALSE
    /\ calm' = rest
    /\ intent' = "opening"

\* Faulty variant: m_failoverIndex is not reset.
finishFailoverKeepsIndex ==
    /\ budget' = FALSE
    /\ active' = FALSE
    /\ switching' = FALSE
    /\ queue' = <<>>
    /\ UNCHANGED index

finishFailover ==
    /\ budget' = FALSE
    /\ active' = FALSE
    /\ index' = 0
    /\ switching' = FALSE
    /\ queue' = <<>>

\* Faulty variant: the last position is never reached.
LaunchableButLast ==
    {k \in (index + 1)..(Len(queue) - 1) : queue[k] \in Preparable}

\* Faulty variant: the current position is launched again.
LaunchableAgain ==
    {k \in DOMAIN queue : k >= index /\ queue[k] \in Preparable}

\* Positions tryNextCandidate may still launch: after the current one, and not
\* skipped because prepareConnection refuses the server.
Launchable == {k \in (index + 1)..Len(queue) : queue[k] \in Preparable}

\* launchConnection of a server prepareConnection accepts.
Launch(s) == Connect([no |-> launches + 1, server |-> s])

\* Faulty variant: m_switching is not raised.
tryNextCandidateUnguarded ==
    /\ active
    /\ \E k \in Launchable :
        /\ \A j \in Launchable : k <= j
        /\ index' = k
        /\ launched' = Append(launched, queue[k])
        /\ launches' = launches + 1
        /\ posted' = Append(posted, Launch(queue[k]))
    /\ switching' = FALSE

\* tryNextCandidate returns true: it stops at the first launchable position.
tryNextCandidate ==
    /\ active
    /\ \E k \in Launchable :
        /\ \A j \in Launchable : k <= j
        /\ index' = k
        /\ launched' = Append(launched, queue[k])
        /\ launches' = launches + 1
        /\ posted' = Append(posted, Launch(queue[k]))
    /\ switching' = TRUE

CannotTryNext == ~active \/ Launchable = {}

-----------------------------------------------------------------------------
(* What the user sees. *)

\* connectionErrorOccurred makes CoreSignalHandlers ask for "Disconnected".
ErrorReply(s) == IF s \in {"Error", "Unknown"}
                 THEN <<SetState("Disconnected")>> ELSE <<>>

\* ConnectionUiController::onConnectionStateChanged, at the end of the slot
\* that handles the first event of the inbox.
Show(s) ==
    /\ ui' = s
    /\ \/ /\ s = "Disconnected" /\ pendingReconnect
          /\ pendingReconnect' = FALSE
          /\ inbox' = Append(Tail(inbox), OpenInvocation)
       \/ /\ ~(s = "Disconnected" /\ pendingReconnect)
          /\ inbox' = Tail(inbox)
          /\ UNCHANGED pendingReconnect
    /\ UNCHANGED <<validating, clicks>>

isConnectionInProgress ==
    ui \in {"Connecting", "Reconnecting", "Disconnecting", "Preparing"}

isConnected == ui = "Connected"

-----------------------------------------------------------------------------
(* handleConnectionState, one action per way through it. *)

\* Faulty variant: m_switching is not lowered.
AttemptStartedStillSwitching(s) ==
    /\ s \in {"Connecting", "Reconnecting"}
    /\ wasConnecting' = TRUE
    /\ Show(s)
    /\ UNCHANGED <<queue, index, active, switching, budget,
                   lastProtocolError, posted, historyVars, defaultServer>>

AttemptStarted(s) ==
    /\ s \in {"Connecting", "Reconnecting"}
    /\ switching' = FALSE
    /\ wasConnecting' = TRUE
    /\ Show(s)
    /\ UNCHANGED <<queue, index, active, budget, lastProtocolError, posted,
                   historyVars, defaultServer>>

Ignored(s) == switching /\ s \in {"Disconnected", "Error"}

TailIgnored(s) ==
    /\ Ignored(s)
    /\ inbox' = Tail(inbox)
    /\ UNCHANGED <<controllerVars, posted>>

\* Faulty variant: the first backup counts as the server that was chosen.
TunnelUpOffByOne(s) ==
    /\ s = "Connected"
    /\ announced' = IF active /\ index > 2 /\ index <= Len(queue)
                    THEN announced \cup {queue[index]} ELSE announced
    /\ wasConnecting' = FALSE
    /\ finishFailover
    /\ Show(s)
    /\ intent' = IF intent = "opening" THEN "up" ELSE intent
    /\ UNCHANGED <<lastProtocolError, posted, launches, requested, overran,
                   calm, launched, defaultServer>>

TunnelUp(s) ==
    /\ s = "Connected"
    /\ announced' = IF active /\ index > 1 /\ index <= Len(queue)
                    THEN announced \cup {queue[index]} ELSE announced
    /\ wasConnecting' = FALSE
    /\ finishFailover
    /\ Show(s)
    /\ intent' = IF intent = "opening" THEN "up" ELSE intent
    /\ UNCHANGED <<lastProtocolError, posted, launches, requested, overran,
                   calm, launched, defaultServer>>

Failed(s) == s = "Error" \/ (s = "Disconnected" /\ wasConnecting)

GiveUp(s) ==
    /\ wasConnecting' = FALSE
    /\ finishFailover
    /\ Show(s)
    /\ posted' = posted \o ErrorReply(s)
    /\ UNCHANGED <<lastProtocolError, historyVars, defaultServer>>

SubscriptionFailure(s, code) ==
    /\ ~Ignored(s) /\ Failed(s)
    /\ isSubscriptionError(code)
    /\ GiveUp(s)

SwitchToBackup(s, code) ==
    /\ ~Ignored(s) /\ Failed(s)
    /\ ~isSubscriptionError(code)
    /\ tryNextCandidate
    /\ Show("Connecting")
    /\ UNCHANGED <<queue, active, budget, wasConnecting, lastProtocolError,
                   requested, announced, overran, calm, intent,
                   defaultServer>>

AttemptEnded(s, code) ==
    /\ s \notin {"Connecting", "Reconnecting", "Connected"}
    /\ ~Ignored(s)
    /\ Failed(s) => CannotTryNext /\ ~isSubscriptionError(code)
    /\ GiveUp(s)

HandleConnectionState(s, code) ==
    \/ AttemptStarted(s)
    \/ TailIgnored(s)
    \/ TunnelUp(s)
    \/ SubscriptionFailure(s, code)
    \/ SwitchToBackup(s, code)
    \/ AttemptEnded(s, code)

HandleProtocolError(code) ==
    /\ lastProtocolError' = code
    /\ inbox' = Tail(inbox)
    /\ UNCHANGED <<failoverVars, uiVars, posted, historyVars, defaultServer>>

\* The code handleConnectionState judges by: the protocol's own, or the last
\* one signalled when the protocol is gone or knows nothing better.
lastConnectionError(fromProtocol) ==
    IF fromProtocol \in {NoError, InternalError} /\ lastProtocolError # NoError
    THEN lastProtocolError ELSE fromProtocol

\* m_failoverBudget fires.
BudgetFires ==
    /\ budget
    /\ budget' = FALSE
    /\ active' = FALSE
    /\ overran' = TRUE
    /\ UNCHANGED <<queue, index, wasConnecting, switching, lastProtocolError,
                   uiVars, posted, inbox, launches, requested, announced,
                   calm, launched, intent, defaultServer>>

-----------------------------------------------------------------------------
(* Requests of the user. *)

\* Some refusals are shown as an error, which asks for "Disconnected"; for
\* others a drawer opens.
notifyConnectionBlocked ==
    \/ posted' = Append(posted, SetState("Disconnected"))
    \/ UNCHANGED posted

\* ConnectionUiController::openConnection of the default server.
openConnection(rest) ==
    /\ startFailover(defaultServer, rest)
    /\ \/ /\ defaultServer \in Preparable
          /\ launches' = launches + 1
          /\ launched' = <<defaultServer>>
          /\ posted' = Append(posted, Launch(defaultServer))
       \/ /\ defaultServer \notin Preparable
          /\ notifyConnectionBlocked
          /\ launched' = <<>>
          /\ UNCHANGED launches
    /\ UNCHANGED <<ui, pendingReconnect, defaultServer>>

\* The invocation onConnectionStateChanged queued for a pending reconnect.
Reopen(rest) ==
    /\ inbox' = Tail(inbox)
    /\ openConnection(rest)
    /\ UNCHANGED <<validating, clicks>>

Click ==
    /\ clicks < MaxClicks
    /\ clicks' = clicks + 1

closeConnection ==
    /\ posted' = Append(posted, Disconnect)
    /\ intent' = "closing"
    /\ calm' = FALSE
    /\ UNCHANGED <<failoverVars, lastProtocolError, ui, validating, inbox,
                   launches, requested, announced, overran, launched,
                   defaultServer>>

\* The connect button while something is under way or connected.
ToggleOff ==
    /\ Click
    /\ ui # "Preparing"
    /\ isConnectionInProgress \/ isConnected
    /\ closeConnection
    /\ UNCHANGED pendingReconnect

\* Another protocol is chosen in the settings: close first, reconnect later.
switchProto ==
    /\ Click
    /\ isConnectionInProgress \/ isConnected
    /\ closeConnection
    /\ UNCHANGED pendingReconnect

\* ConnectionController::setConnectionState, queued like any request.
RequestState(s) ==
    /\ posted' = Append(posted, SetState(s))
    /\ calm' = FALSE
    /\ UNCHANGED <<failoverVars, lastProtocolError, launches, requested,
                   announced, overran, launched, intent, defaultServer>>

\* The connect button when idle: isConnectionSupported holds, the config is
\* validated, which for a subscription waits for the network.
ToggleOn ==
    /\ Click
    /\ ~isConnectionInProgress /\ ~isConnected
    /\ RequestState("Preparing")
    /\ validating' = validating + 1
    /\ UNCHANGED <<ui, pendingReconnect, inbox>>

\* The connect button when idle and isConnectionSupported refuses with a code
\* that is shown as an error (the service is not running, the container is not
\* supported); with other codes nothing changes.
ToggleBlocked ==
    /\ Click
    /\ ~isConnectionInProgress /\ ~isConnected
    /\ RequestState("Disconnected")
    /\ UNCHANGED <<ui, pendingReconnect, inbox, validating>>

ConfigValidated(rest) ==
    /\ validating > 0
    /\ validating' = validating - 1
    /\ openConnection(rest)
    /\ UNCHANGED <<inbox, clicks>>

ConfigRefused ==
    /\ validating > 0
    /\ validating' = validating - 1
    /\ RequestState("Disconnected")
    /\ UNCHANGED <<ui, pendingReconnect, inbox, clicks>>

\* ConnectionUiController::reconnect, asked for when the server or the
\* protocol is changed.
ReconnectClosing ==
    /\ Click
    /\ isConnectionInProgress \/ isConnected
    /\ pendingReconnect' = TRUE
    /\ closeConnection

ReconnectOpening(rest) ==
    /\ Click
    /\ ~isConnectionInProgress /\ ~isConnected
    /\ openConnection(rest)
    /\ UNCHANGED <<inbox, validating>>

SetDefaultServer(s) ==
    /\ Click
    /\ s # defaultServer
    /\ defaultServer' = s
    /\ UNCHANGED <<failoverVars, lastProtocolError, ui, pendingReconnect,
                   inbox, validating, posted, historyVars>>

-----------------------------------------------------------------------------
ControllerInit ==
    /\ defaultServer \in Servers
    /\ queue = <<>> /\ index = 0 /\ active = FALSE
    /\ wasConnecting = FALSE /\ switching = FALSE /\ budget = FALSE
    /\ lastProtocolError = NoError
    /\ ui = "Disconnected" /\ pendingReconnect = FALSE
    /\ validating = 0 /\ clicks = 0
    /\ posted = <<>> /\ inbox = <<>>
    /\ launches = 0 /\ requested = defaultServer /\ announced = {}
    /\ overran = FALSE /\ calm = FALSE /\ launched = <<>> /\ intent = "idle"

ControllerTypeOK ==
    /\ defaultServer \in Servers
    /\ queue \in Seq(Servers) /\ Len(queue) <= kMaxAttempts
    /\ index \in 0..Len(queue)
    /\ active \in BOOLEAN /\ wasConnecting \in BOOLEAN
    /\ switching \in BOOLEAN /\ budget \in BOOLEAN
    /\ lastProtocolError \in ErrorCode \cup {NoError}
    /\ ui \in ConnectionState /\ pendingReconnect \in BOOLEAN
    /\ validating \in Nat /\ clicks \in Nat
    /\ posted \in Seq(Command) /\ inbox \in Seq(Event)
    /\ launches \in Nat /\ requested \in Servers
    /\ announced \subseteq Servers /\ overran \in BOOLEAN
    /\ calm \in BOOLEAN
    /\ launched \in Seq(Servers)
    /\ intent \in {"idle", "opening", "up", "closing"}

\* One opening launches kMaxAttempts servers at most and none of them twice,
\* however often and in whatever order failures are reported: one failover
\* never turns into a loop over dead servers (startFailover,
\* tryNextCandidate).
FailoverBounded ==
    /\ Len(launched) <= kMaxAttempts
    /\ \A i, j \in DOMAIN launched : launched[i] = launched[j] => i = j

\* While the failover is active, the servers launched so far stand in the queue
\* of the last opening, at the current position or before it: the position
\* never runs behind the attempts it stands for (m_failoverIndex against
\* openConnectionRequested).
LaunchedFromQueue ==
    active => /\ queue = Candidates(requested)
              /\ Len(launched) <= index
              /\ \A i \in DOMAIN launched :
                     \E p \in 1..index : launched[i] = queue[p]
==============================================================================
