# Fresh VPN: TLA+ models of the connection

Models of the desktop client of Fresh VPN (a fork of Amnezia VPN) and of its
privileged service on Linux: how a press of the connect button becomes a tunnel,
what happens when a server does not answer, what the user is shown meanwhile, and
which traffic may leave the machine before, during and after a tunnel. Paths are
relative to the repository (`src/`).

## 1. The system

The client is a Qt program of two threads that exchange queued signals. A
privileged service on the same machine changes the network: it hosts the
WireGuard daemon, starts processes, adds routes and keeps the kill switch. On
Android and iOS the operating system's VPN service takes the place of all that.

| Part | State | Operations | Talks to |
|---|---|---|---|
| `ConnectionController` (UI thread) | queue of backup servers, position in it, flags "active", "switching", "was connecting", last error code, 60 s budget | open, close, handle a state, handle an error code, budget fires | `VpnConnection` by queued signals; `ConnectionUiController` directly |
| `ConnectionUiController`, `CoreSignalHandlers` (UI thread) | state shown, pending reconnect, validation under way | toggle, reconnect, show a state, validate the config, answer an error | `ConnectionController` |
| `VpnConnection` (VPN thread) | state, the protocol object, routes | connect, disconnect, reconnect on a network change, set a state, add routes | protocol object directly, service by IPC |
| `VpnProtocol` and subclasses (VPN thread) | state, last error, timeout timer; WireGuard: traffic probe; Xray: tun2socks and its restarts; OpenVPN: process and management socket | start, stop, timeout, reports from outside | daemon, openvpn, xray, tun2socks |
| `LocalSocketController` and `Daemon` | socket state, retries; connections, peers, resolvers, exclusion routes | initialize, activate, deactivate, switch server, check handshakes | `WireguardUtils*`, route monitor, firewall |
| `KillSwitch` (service) | mode, allowed ranges, firewall anchors | refresh, enable, disable, add and reset ranges | firewall |
| `SecureServersRepository` | ordered servers, default server | add, edit, remove, set default | settings store |
| `GatewayController`, `SubscriptionController` | remembered proxy, subscription config | request with fallback to proxies, import, update, validate | gateway over HTTPS |
| `InstallController`, `UsersController` | a remote host | install, scan, remove containers and clients | SSH |
| Android, iOS | service state | bind, connect, disconnect, restore | operating system |

What is hard here:

* **Two threads, stale messages.** Each thread acts on what the other one said
  some messages ago. A state carries no mark of the attempt it stems from, so the
  UI thread must guess whether "Disconnected" is the end of the attempt it has
  just given up or a new failure.
* **Stopping emits.** Stopping a protocol, which `connectToVpn` does in the middle
  of starting the next one, emits the last states of the old protocol.
* **Timers race answers.** The timeout, the probe's deadline, the failover budget,
  delayed restarts and delayed routes fire while answers are queued.
* **Partial failure.** Starting has many ways to fail, each with its own mixture of
  states, error codes and return values.
* **Outside processes end when they like**, and report it to an object that may
  have been started again since.
* **One firewall, several callers.** The client's protocols, the settings, requests
  to the gateway and the WireGuard daemon all change the same rules, over two
  sockets that order nothing between them.
* **Answers without an address.** The daemon's reports say neither which activation nor
  which deactivation they are about; a late one is taken for news of the current tunnel.
* **Nested event loops.** Waiting for `amneziawg-go`, the daemon runs its event loop, so
  other commands, of the next session for instance, run inside an activation or a
  deactivation.
* **Rules outlive processes.** Client, service and tunnel process may die at any
  time; the iptables rules stay, the kill-switch mode stays, the rest is forgotten.

What makes it correct: each failure is charged to the attempt it belongs to;
every server of the queue gets its turn, once; an error is shown only when no
server is left; whoever ends up on another server is told; the screen agrees with
the thread behind it; "connected" means there is a tunnel and "disconnected" that
there is none; routes do not outlive the tunnel; nothing stays "connecting" for
ever; a tunnel whose kill switch is on leaks nothing, its server stays reachable,
strict mode is sealed at all times, and a session that is over leaves nothing in
the service. `PROJECT.json` lists these as hazards, each at its line.

## 2. The modules

| Module | Models |
|---|---|
| `VpnCommon` | states, error codes, servers, the messages between the threads, the two event queues, the default server |
| `ConnectionController` | the UI thread: `ConnectionController`, `ConnectionUiController` and the two handlers of `CoreSignalHandlers` that take part |
| `VpnConnection` | the VPN thread: `VpnConnection`, `VpnProtocol` and the WireGuard, OpenVPN and Xray protocols |
| `ConnectionStack` | both threads together with user, timers and outside events; the properties |
| `AnyVpnThread` | the UI thread against a VPN thread that may say anything, without bounds: for proofs only |
| `LinuxFirewall` | the anchors of the iptables rules and what becomes of a packet |
| `KillSwitch` | the service's kill switch as functions on the service's state |
| `Daemon` | the WireGuard daemon and `WireguardUtilsLinux`: activation and deactivation cut at their waits, server switch, exclusion routes |
| `TrafficPolicy` | abstract: who may open the machine, and when |
| `Service` | the privileged service with its two kinds of callers, the three protocols' calls, and faults; implements `TrafficPolicy` |
| `WireguardSession` | `LocalSocketController` against `DaemonLocalServer` and its connections, session after session, over `Daemon` |
| `ConnectionController_proofs`, `VpnConnection_proofs`, `AnyVpnThread_proofs`, `ConnectionStack_proofs`, `Service_proofs`, `ServiceSession_proofs`, `ServiceTunnel_proofs`, `WireguardSession_proofs` | theorems, see section 4 |
| `MCConnectionStack`, `MCService`, `MCWireguardSession` | small instances for TLC |

There are two layers: the client's threads (`ConnectionStack`), where the service
is what it may answer, and the service (`Service`, `WireguardSession`), where the
client is what it may ask.

### UI thread

`queue`, `index`, `active`, `wasConnecting`, `switching`, `lastProtocolError` and
`budget` are the members of `ConnectionController`; the position counts from 1 and
0 stands for the code's -1. `ui` and `pendingReconnect` belong to
`ConnectionUiController`. `posted` and `inbox` are the event queues of the two
threads: Qt delivers queued signals between two threads in the order they were
sent. `validating` counts validations of a config under way, which run in another
thread or wait for the network in a nested event loop and so end at any later
time.

Each way through `handleConnectionState` is an action: `AttemptStarted`,
`TailIgnored`, `TunnelUp`, `SubscriptionFailure`, `SwitchToBackup`,
`AttemptEnded`. Each ends in `Show`, because `connectionStateChanged` calls
`onConnectionStateChanged` directly, and that may queue an opening (pending
reconnect) or ask for "Disconnected" (`ErrorReply`). `prepareConnection` succeeds
for the servers in `Preparable`. `isConnectionSupported` refuses freely
(`ToggleBlocked`).

`launches`, `requested`, `announced`, `overran`, `calm`, `launched`, `intent` and
`connectedVia` are history: no guard reads them. `calm` says that the last opening
began when nothing of an earlier attempt could be heard of any more, that the user
asked for nothing else since, and that no report of the daemon on an activation that was
given up was taken for one on the current tunnel.

### VPN thread

A slot runs to completion and emits several signals on its way, so it is written
as a composition of operators on a record (`vpn`) whose field `out` collects the
signals; `Done` queues them all. `setConnectionState` is `VpnConnection`'s and
`protocolState` is `VpnProtocol`'s, which is connected to it directly. `Start`
gives the set of states in which `start` may end and the error it returns.

What reaches a protocol from outside is an action: the handshake report, answered
and unanswered probes, failures and disconnections for WireGuard; management
states, fatal lines and the end of the process for OpenVPN; ready, busy and
finished tun2socks for Xray.

`LocalSocketController::deactivate` reports "disconnected" at once, and the daemon does
so again when it reads the command. `late` says that this second report, or several, is
still to be read: every stop of a working activation sets it. It passes from an object
to the one that replaces it when the new one's socket is open by the time the daemon
gets to the deactivation, which `factory` leaves open. The daemon writes in order: before
`late` is settled nothing is heard of the current activation. Heard by an object that is
at "Disconnected" anyway, it changes nothing (`lateDisconnected`); otherwise it is
`misheardReport`, which lets the object take the daemon's words about the old activation
for its own: a handshake, a failure, the end. The latter is an event of `MaxEvents`.

Two values are read uninitialised. The constructor of `VpnConnection` leaves
`m_connectionState` so: `VpnInit` starts it anywhere. That of `VpnProtocol` leaves
`m_lastError` so: each new object begins with a code that looks like one of the
subscription API or one that does not, which is all `handleConnectionState` tells apart.

Network changes, flaps of openvpn and misheard reports are bounded by `MaxEvents`, user
actions by `MaxClicks`, restarts of tun2socks by `maxTun2SocksRetries` (5 in the code).

That a slot of the VPN thread runs to completion is an assumption: calls to the service
wait for their reply (`waitForFinished`, `waitForSource` of Qt Remote Objects, which is
not part of the repository), and if that wait runs an event loop of its own, queued
commands could be delivered inside a slot.

`Patient` restrains the user: a connection is asked for only when nothing is
under way, and nothing is closed while a config is validated. Without it
the screen shows what the last of two overlapping requests left; section 5 lists
such behaviours.

### The firewall, the kill switch and the daemon

`LinuxFirewall` keeps the tables as a record: installed or not, the pairs of anchor
and IP version switched on, the contents of the two chains of networks. Anchors are
numbered in the order in which `install` links them; `Rejected` is the verdict of
the first anchor that matches a packet. `KillSwitch` and `Daemon` are functions on
the service's state `s`, one per function of the code; they are pure so that both
`Service` and `WireguardSession` can use them and lemmas can be stated about each.

`Daemon.activate` and its continuations return sets of outcomes, one for each early
return and one for going on, cut where the code waits for `amneziawg-go` ("name",
"setup", "peer", "switch"). `deactivate` waits too, for the answer to `deletePeer`'s
command, in the middle: resolvers and the peer's route are gone by then, exclusions,
connection, interface and rules are not. Where another connection can be served meanwhile
(`WireguardSession`), it is cut there ("down", and "takeover" inside an activation);
in `Service` it is one step, because there only calls of the kill switch can come in
between, and what precedes the wait touches no rule, so that it may as well come after
the call. `supportServerSwitching` compares keys, addresses and gateways: for one host
both answers are possible, for two hosts only "no". `s.proc` is "killed" between the `kill` of a timed-out
activation and the moment the process is reaped, during which `QProcess` still
says Running.

### The service

`Service` holds `s`, the waiting activation (`frame`), the unread commands of the
WireGuard socket (`inbox`) and the client's protocol object (`app`). Calls to the
kill switch come over another channel and take effect at once, also while an
activation waits. Each of `Start*`, `UpdateVpnGateway`, `SetupRouting`, `Stop`,
`OpenVpnFinished` and `Tun2SocksFinished` makes the kill-switch calls of the
function it is named after, in their order. Faults are the death of the tunnel
process, crashes of client and service, a quit, a reboot, and a deactivation that
is not sent or is lost with a freed connection object. `marks` is history: which
disturbance happened since the service was last clean; properties name the marks
they except, and nothing else reads them.

The client's settings are not state: a restored backup changes them without a word
to the service, so each use of them takes either value. `StartWireguard` waits for
a quiet daemon; what happens otherwise is the subject of `WireguardSession`.

### The WireGuard session

A controller belongs to one protocol object and one socket. Its first request
(status) and the activation are written together, so `deactivate` before the status
reply is read sends nothing (`Silent`). `stack` holds the activations and deactivations
that wait, innermost last: only the innermost one can go on, and connections other than
the waiting ones are read meanwhile, older ones first. "Connected" and "disconnected" go
to every connection, a failed activation to its own. A deactivation tells its end before
it waits and then ends whatever connection it finds: `crossed` records, for the
properties only, that an activation was read or a handshake reported inside such a wait.

## 3. What is checked

| Run | Instance | Shows |
|---|---|---|
| `stack_failover` | 4 servers: WireGuard, an OpenVPN one that cannot be prepared, OpenVPN, one without a protocol; 4 attempts; 2 clicks and 1 event or 1 and 2 | failures charged once, backups announced, error only when exhausted, the queue's bounds, idle screen means idle protocol, connected means tunnel, screen shows the state, no DNS route without tunnel, "Disconnecting" can end |
| `stack_mixed` | 2 WireGuard servers and an Xray server; 1 click, 1 event; fair | nothing stays preparing, connecting or reconnecting; routes and screen follow, with the daemon's late answers reaching the next server's object |
| `service` | 2 servers, one prefix in the split-tunnelling list, modes 1 and 2 with the kill switch and mode 2 without, 1 fault | strict mode sealed, tunnels sealed and their servers reachable, nothing left after a session, routes and counts follow the connection; refinement of `TrafficPolicy` |
| `wg_session` | 2 servers, 3 requests, 2 retries, 1 crash of the service; fair | client and daemon agree once all is read, nothing kept, no controller initialises for ever |
| `find_xray_double_charge` | 3 Xray servers, 1 click | finding 1 |
| `find_silent_switch` | 2 WireGuard servers, 1 click | finding 2 |
| `find_failover_cancelled` | 2 WireGuard servers, 1 click | finding 3 |
| `find_closed_reopens` | 2 WireGuard servers, 2 clicks | finding 4 |
| `find_late_report` | 2 WireGuard servers, 1 click, 2 events | finding 7 |
| `find_reconnecting_forever` | 2 OpenVPN servers, 1 click, fair | finding 5 |
| `find_killswitch_drop` | 1 server, no fault | finding 6 |
| `find_sites_unsealed` | 1 server, no fault | finding 8 |

Bounds. Three launchable servers are the least for which a failure charged twice skips
one, and the code's `kMaxAttempts` is 3; in `stack_failover` one of four positions cannot
be prepared and is skipped, and the three others are left, over three kinds of protocol.
Two clicks open and close, or change the server and reconnect; with two events a network
change sets `late` and the report is then misheard, once with the user idle
(`FewInputs` bounds clicks and events to three together). One network change or flap is
enough to enter `reconnectToVpn` or "RECONNECTING" once, after which the protocol is in a
state it was in before. The user may stop clicking for good, so deadlock is not an error
in the runs of the client's threads and of the session.

For the service, two servers distinguish a switch of configuration on one server
(`switchServer`) from a change of server; a prefix in the list is the entry that
`switchServer` cannot look up. Tunnels may follow each other without bound, and the
fault may come anywhere in that sequence; the theorems of section 4 hold for any
number of faults. Mode 0 differs from mode 2 with an empty list in nothing. Servers
are interchangeable, and `VisibleState` hides the contents of a list of networks
whose anchor is off: no packet meets it, and each call that switches the anchor on
fills it anew. In the session three requests are a session, one that overtakes it
and one inside both; a third is made only while the daemon was told everything
(`ThirdOnlyIfTold`), because of the rest only `InitializationEnds` speaks, which is about
one controller; `MAX_CONNECTION_RETRY` is 10 in the code, and 2 is the least
value for which the loss of an open socket (two errors at once) still leaves a retry.

Fairness (`FairSpec`): both event loops turn, a timer that stays armed fires, the
probe ends at its deadline, a validation ends. Qt promises that as long as the
process runs. Nothing is assumed of users, servers, processes or networks.
In `WireguardSession` the client's event loop and timers and the daemon's event loop
are fair, the waits of an activation being bounded by timers; a handshake may never
come and the service may never be started again.

### Findings

1. **One failure, two candidates (Xray).** `connectToVpn` announces "Connecting" for
   the next server, which lowers `m_switching`, before it stops the old protocol.
   A failed Xray start leaves that protocol at "Connecting", so its stop emits
   "Disconnected" for the next attempt to be charged with.
2. **Silent switch.** When the budget fires while a backup is tried and the backup
   answers, nobody is told.
3. **Failover cancelled by an echo.** "Preparing" comes back after the queue was
   built and clears it.
4. **A close reopens.** `closeConnection` does not end the failover. The close's own
   signals do: `disconnectFromVpn` emits "Disconnecting" first, which clears the queue.
   But a failure of the attempt that is unread when the close is posted is read before
   them and opens the next server, behind the close.
5. **Reconnecting for ever.** openvpn that ends while reconnecting leaves a screen
   that never changes.
6. **A drop opens the machine (Xray).** tun2socks that ends by itself makes the
   protocol stop itself, and `stop` takes the kill switch down, although the home
   page promises that a drop blocks all internet.
7. **Disconnected, over an activation (WireGuard).** `reconnectToVpn` stops and starts
   the same object. The daemon's answer to the deactivation arrives while it activates
   again, is taken for the end of that, and the screen says "Disconnected" with the timer
   stopped, while the daemon brings the tunnel up. `controllerimpl.h` says that
   "disconnected" ends the connecting or disconnecting state.
8. **Listed sites around the tunnel (OpenVPN, Xray).** In mode 1 `enableKillSwitch`
   switches the block of the listed sites by `blockAll` instead of `blockNets`, so it is
   off exactly in the mode that needs it. WireGuard's rules and the macOS branch pass
   `blockNets`.

## 4. What is proved

For every list of servers, every `kMaxAttempts > 0` and any number of clicks and
messages:

* `AnyVpnThread_proofs`: `ControllerTyped`, `FailoverIsBounded` and
  `LaunchesFollowTheQueue`: whatever the VPN thread signals, one opening launches
  no server twice and at most `kMaxAttempts` servers.
* `ConnectionStack_proofs`: `StackTyped` (`TypeOK`), `StackFailoverBounded`, and
  `DnsRoutesFollowTunnel` (`DnsRoutesOnlyWithTunnel`) for the composed system;
* `ScreenIsCurrent` (`ScreenShowsState`), `DisconnectingEnds` (`DisconnectingCanEnd`) and
  `ConnectedIsBacked` (`ConnectedHasTunnel`), for any protocols and also for an impatient
  user. Behind "Connected" there is a running protocol, or a tun2socks about to be
  restarted, or an answer of the daemon that will correct the screen;
* of an opening that is left alone (`calm`), where no server uses Xray:
  `IdleScreenIsIdle` (`IdleScreenIdleProtocol`), `NoFailureChargedTwice`
  (`OneFailureOneCandidate`), `BackupsAreAnnounced` (`BackupAnnounced`) and
  `ErrorsComeLast` (`ErrorOnlyWhenExhausted`). The daemon's late answers are part of the
  behaviours these speak of, up to the one that is misheard: from then on the opening is
  not calm, and finding 7 shows what it does to the screen. TLC refutes
  `IdleScreenIdleProtocol`, `BackupAnnounced` and `OneFailureOneCandidate` with Xray
  (finding 1); whether `ErrorOnlyWhenExhausted` needs the hypothesis is open.

Argument. That launched servers are distinct is not inductive: it needs to know
that the next one stands later in a queue without repetitions than all launched
before. `ControllerInv` adds `LaunchedFromQueue`: while the failover is active the
queue is `Candidates(requested)` and what was launched stands at or before the
position. `CandidatesDistinct` shows that the queue repeats nothing, from the
assumption that the repository's list does not. `ConnectionController_proofs` has one lemma per
action, over the variables of the UI thread only; both compositions cite them.

For the VPN thread `VpnConnection_proofs` follows each operator of the composition:
it keeps `VpnOK`, types together with "a DNS route needs a protocol that is
connected, reconnecting or disconnecting", and `Stop` leaves no DNS route behind,
so that a new protocol object may begin at "Unknown".

What the screen shows is a fact about what was sent and is not read yet. `InStep`
says that the last state signal in the inbox, or the screen if there is none, is the
state `VpnConnection` is in. It is not inductive: the UI thread drops signals while it
switches to a backup server. So `ScreenInv` adds that a switch ends, because the
command that opens the backup is posted or its "Connecting" is in the inbox
(`SwitchHeard`), that every command that connects carries a number (`Numbered`), and
that nothing says "Connected" before the first attempt (`NotYetUp`). `Truthful` relates `VpnConnection`'s state to its protocol's:
"Disconnecting" with a protocol means a process that exits, "Connected" a connected
protocol with a process. `VpnConnection_proofs` has a lemma for each operator and each
slot: the last state it emits is the state it ends in (`...Turn`, `...Tells`).

The failover judges an attempt by signals that do not say which attempt they stem
from. That it is right about them in a calm opening needs to know, of every state of
both queues, whose signals are still unread. `SteadyInv`: the last request to connect
or, with none posted, the attempt `VpnConnection` is at carries the number launched last
(`Latest`), and in a calm opening the protocol's state, process and timer go together
(`Shaped`). `CalmInv` is about a calm opening. With nothing to connect posted (`Followed`), the inbox is the
tail of an attempt that was given up, only "Disconnected" and "Error", followed by the
signals of the attempt `VpnConnection` is at; there is such a tail only while
`m_switching` is raised, and then a "Connecting" separates the two, which is what
lowers the flag in time. Among the own signals a first "Disconnected" or "Error",
with neither "Connected" nor "Disconnecting" before it, is the last word of the
protocol (`Orderly`): whoever launches a backup on it launches it after an attempt
that has ended, and what still arrives is a tail of the permitted kind (`Waiting`).
The answer to an "Error", a request for "Disconnected", meets a protocol that does not
work (`Setting`). `LoneInvariant` puts them together; for the VPN thread it rests on
one lemma per slot of `VpnConnection_proofs` that says which states the slot emits, of
which attempt, and what they say of its protocol (`...Says`, summed up in `Report`).

`FailoverInvariant` adds where the search stands. `Walked`: while the failover is
active, every server up to the position that can be prepared was launched. `Told`:
the server the VPN thread is at, or was asked for, is the requested one, an announced
one, the one at the position, or it will never be shown as connected. `Trying`: the
failover is active, has tried everything, or the screen will not be brought back to
"Connecting".

For the service, `Service_proofs` proves for any servers, sites, prefixes, modes and
number of faults:

* `ServiceTyped` (`TypeOK`);
* `StrictIsSealed` (`StrictSealed`): in strict mode a running service rejects in every
  state IPv6 to the internet and queries to foreign resolvers (`Leaks`), and ordinary
  traffic unless a tunnel of mode 1 set its rules. IPv6 within the local network, queries
  to a resolver there included, is not among `Leaks`: the code lets it pass
  (`killswitch.cpp:325-328`);
* `ServiceImplementsPolicy` (`ImplementsPolicy`): `Service` implements `TrafficPolicy`,
  whose `FailClosed` is proved too (`PolicyFailsClosed`).

None of them is inductive. The service can be in strict mode with rules that other
callers left half-switched, and `StrictSealed` says nothing of a service that is
down. The invariant `IInv` adds two facts that hold in both modes: an installed
firewall always rejects IPv6 and rejects all of IPv4 or its queries, with an
exception for the local network only beside the block of queries (`Sealed`); and a
running service in strict mode has it installed (`Armed`). Each function of
`KillSwitch` and `Daemon` has a lemma saying that it keeps both and what it does to
the rules (`...Facts`). A step of `Service` is then of one of five kinds: it leaves
mode and rules within what tunnels may do (`Calm`), changes the mode (`Toggles`),
ends the process (`Ends`), begins it (`Begins`) or reboots (`Reboots`); each kind
keeps `IInv` and is a step of `TrafficPolicy` or a stutter.

`ServiceSession_proofs` and `ServiceTunnel_proofs` prove, in the same generality, the
properties of a tunnel:

* `RoutesFollow` (`RoutesFollowConnection`) and `NothingIsLeft` (`NothingLeft`);
* `TunnelIsSealed` (`TunnelSealed`): `Leaks` and, in every mode but 1, ordinary traffic
  are rejected; in mode 1 the listed sites are for WireGuard, and not for OpenVPN and Xray
  (finding 8). And `ServerIsReachable` (`ServerReachable`), which is about the server
  only: sites that go around a tunnel of mode 2 are rejected after a gateway request has
  replaced the allowed networks.

Each speaks of moments at which the daemon has read everything or the client's tunnel
is up, and follows from what may be under way at all other moments. `Routed`: the
counts of excluded addresses and the route table agree, with the connection or with
what the waiting activation has claimed so far. `Session`, as long as nothing
undermined it (`Clear`): phase of the client's object, unread commands, waiting
activation and the daemon's connection are in one of six shapes, from `Resting` over
`Asked` (an activation is unread), `Working` (it waits) and `Held` (it is over, well
or not) to `Leaving` and `Recalled` (given up, the deactivation unread). `SoftOpen`: in soft mode the firewall has rules only
for an OpenVPN or Xray tunnel that is held or a tunnel process that runs. From these and
`Listed` (only sites are listed as blocked), `ArmedTunnel` says for each protocol
which anchors and networks its tunnel has switched on, which decides the verdict on
the packets of `TunnelSealed` and `ServerReachable`.

`WireguardSession_proofs` proves, for any servers, number of retries, requests and
crashes:

* `SessionTyped` (`TypeOK`), `ClientsAgree` (`ClientAgrees`) and `NothingIsKept`
  (`NothingKept`).

Both properties speak of a settled state, and any number of activations may wait
inside each other before it, an older session's ending after a newer one's, with
deactivations waiting in between. The invariant `SessionInv` holds as long as the daemon
was told everything. `Tidy`: whatever an activation has done so far, a deactivation
undoes, at once or in the two halves of its wait (`DeactivateFirstFacts`, `EndFacts`: it
leaves exactly a fresh service). `Owed`: a connection with unread commands or a waiting
activation is the wanted session's, or its last unread command is a deactivation; a
daemon that is not fresh is wanted, about to be cleaned, or being cleaned. `Current`: a
connection that is not the current session's is to be ended, by a deactivation that
waits or is unread. `Ordered`: on the current connection the status comes first and only
a deactivation follows an activation, so the controller is ready before anything ends.
As long as nothing crossed: `Nested`, inside a deactivation's wait only deactivations
wait; and `Agreed`, once no deactivation is unread, an activation that is still to come
finds no connection or one that is being ended, and when it is over the daemon has its
connection or the controller has been told of the end, with no "connected" after it.
Otherwise `Current` still shows that the daemon holds the client's connection or none.
There is one lemma per action; that an activation keeps `Tidy` and has at its end its own
connection or the one it found is shown from wait to wait (`Follows`).

Assumptions are the named `ASSUME`s: servers are distinct and at least one,
`kMaxAttempts` is positive, each server has a protocol kind; the addresses of
servers, sites and gateway are distinct and prefixes are sites.

Only model-checked: liveness (`BusyEnds`, `InitializationEnds`), which is out of the
proof system's reach. Every safety property of the passing runs is a theorem, for the
two threads with the hypothesis named above; with Xray servers `stack_mixed` checks the
properties that do not need it.

## 5. What is not modelled

* JSON configurations, byte counters, texts, logging; in `VpnConnection` the
  individual IPC calls inside a start or stop, which succeed or fail as one step.
* Android, iOS, the Windows IKEv2 protocol, the macOS and Windows daemons and kill
  switches.
* In the service: a call of the firewall is atomic and its iptables commands
  succeed; IPC calls do not time out; the wait of `getPeerStatus` is atomic; a
  deactivation read inside another one's wait empties the map the outer one iterates
  over, which is undefined, and is modelled as if the outer one went on unharmed; there is a default gateway; lists of DNS servers are not told apart
  beyond "one of the listed"; NAT and marking chains; Xray's resolvers and IPv6
  routing; an OpenVPN configuration that is missing before the server is allowed.
* The service's `Router` and helper processes, the proxies of `GatewayController`
  (stateless but for the remembered proxy, which every request may replace).
* The stores: adding and removing servers, settings. SSH installation, import,
  export, QML pages, vendored code.

Known behaviours outside the checked assumptions. In the client: with an impatient
user (two openings at once, a close during validation) the UI may show the outcome
of the older request; a handshake report read after a timeout starts a probe that runs
outside the tunnel until the daemon's late "disconnected" is read; a tun2socks restarted after `stop` runs without a protocol.

In the service, each met as a counterexample before its property excepted it:

* In soft mode a WireGuard deactivation read after the next OpenVPN or Xray tunnel is
  up takes that tunnel's rules away ("overlap" in `TunnelSealed`).
* Switching the kill-switch settings opens a running tunnel ("toggle").
* A gateway request in strict mode replaces the allowed networks and so drops a
  WireGuard server from them ("gateway" in `ServerReachable`).
* A stop before the first status reply sends no deactivation ("unsent"): the tunnel
  comes up and stays.
* An activation that times out kills the tunnel process, by then perhaps a newer
  session's; as after a death of the process by itself, the rules stay ("died",
  `ProcessReaped`).
* A client that goes away during its activation has its connection object freed while
  it reads; what follows is undefined.
* An activation written while the service does not listen is lost and not repeated
  after the retry that succeeds.
* An activation that is read while an earlier session's deactivation waits for
  `amneziawg-go` is torn down when that goes on, after its "disconnected" was told: the
  client waits for a handshake that cannot come until its own timer ends it, and a
  handshake reported inside that wait leaves it "connected" over nothing (`crossed` in
  `ClientAgrees`).
* IPv6 queries to a resolver of the local network pass beside a tunnel whose kill switch
  is on, unlike IPv4 ones.
* A "connected" read after the user's stop, followed by a network change, brings the
  tunnel back (`Reconnect` with `wanted` false).

## 6. Plan

1. *Done:* `VpnCommon`, `ConnectionController`, `VpnConnection`, `ConnectionStack`,
   `AnyVpnThread` and their proofs.
2. *Done:* `LinuxFirewall`, `KillSwitch`, `Daemon`, `Service` with the refinement of
   `TrafficPolicy` and its proofs; `WireguardSession`.
3. *Done:* proofs of `NothingLeft`, `RoutesFollowConnection`, `TunnelSealed` and
   `ServerReachable` for the service, `ScreenShowsState`, `DisconnectingCanEnd` and
   `ConnectedHasTunnel` for the two threads, `ClientAgrees` and `NothingKept` for the
   WireGuard sessions; `IdleScreenIdleProtocol`, `BackupAnnounced`,
   `OneFailureOneCandidate` and `ErrorOnlyWhenExhausted` for an opening that is left
   alone; the wait inside a deactivation, and the daemon's late answers in every run.
   *Left:* whether the last of these holds with Xray.
4. `ServersRepository` (the default server is always one of the list), `Router` with
   the delayed site routes, the Android service.
