-------------------------- MODULE WireguardSession --------------------------
(***************************************************************************)
(* One WireGuard session after another, between the client and the daemon: *)
(* the client's LocalSocketController (localsocketcontroller.cpp), one per *)
(* protocol object, and the daemon's local server                          *)
(* (daemonlocalserver.cpp, daemonlocalserverconnection.cpp) in front of    *)
(* the daemon itself (module Daemon).                                      *)
(*                                                                         *)
(*   d        the state of the daemon                                      *)
(*   up       the service runs and listens                                 *)
(*   cmds     for each connection, the commands not read by the daemon yet *)
(*   stack    the activations and deactivations that wait, innermost last: *)
(*            while one waits the event loop serves the other connections, *)
(*            not its own                                                  *)
(*   reading  the connection whose commands are being read, or 0           *)
(*   ctl      the controller of the client's protocol object:              *)
(*              id, c     its connection and the configuration it was given*)
(*              wanted    the user has not asked for its end               *)
(*              state     m_daemonState; retry  m_initializingRetry        *)
(*              timer     m_initializingTimer is running                   *)
(*              sock      its socket: "no", "open", or "dead" (the service *)
(*                        is gone, the client has not noticed)             *)
(*              shown     what it last signalled                           *)
(*   replies  what the daemon wrote to it and it has not read              *)
(*   asked    how many requests the client has made, bounded by MaxAsked   *)
(*   untold   history, for the properties only: an activation or a         *)
(*            deactivation did not reach the daemon, the service crashed,  *)
(*            a reconnection overtook the user's disconnection, or a late  *)
(*            activation killed the process of another                     *)
(*   crossed  history: an activation was read, or a handshake reported,    *)
(*            inside the wait of a deactivation                            *)
(*   faults   how many crashes there were, bounded by MaxFaults            *)
(***************************************************************************)
EXTENDS Daemon, Sequences

CONSTANTS MAX_CONNECTION_RETRY,   \* 10 in the code
          MaxAsked, MaxFaults

ASSUME SessionAssumption ==
  MAX_CONNECTION_RETRY \in Nat /\ MaxAsked \in Nat \ {0} /\ MaxFaults \in Nat

VARIABLES d, up, cmds, stack, reading, ctl, replies, asked, untold, crossed, faults

vars == <<d, up, cmds, stack, reading, ctl, replies, asked, untold, crossed, faults>>

Connections == 1 .. MaxAsked

Status      == [type |-> "status", c |-> NoConfig]
Deactivate  == [type |-> "deactivate", c |-> NoConfig]
Activate(c) == [type |-> "activate", c |-> c]

NoController == [id |-> 0, c |-> NoConfig, state |-> "eUnknown", retry |-> 0, timer |-> FALSE,
                 sock |-> "no", shown |-> "none", wanted |-> FALSE]

Init ==
  /\ d = freshService
  /\ up \in BOOLEAN
  /\ cmds = [i \in Connections |-> <<>>]
  /\ stack = <<>>
  /\ reading = 0
  /\ ctl = NoController
  /\ replies = <<>>
  /\ asked = 0
  /\ untold = FALSE
  /\ crossed = FALSE
  /\ faults = 0

(***************************************************************************)
(* LocalSocketController.  A write to a socket that is not open is lost.   *)
(***************************************************************************)
write(msgs) ==
  cmds' = IF ctl.sock = "open" THEN [cmds EXCEPT ![ctl.id] = @ \o msgs] ELSE cmds

disconnectInternal(k) ==
  [k EXCEPT !.state = "eReady", !.retry = 0, !.timer = FALSE, !.shown = "disconnected"]

\* Mutant: one retry more than there are.
errorOccurredOnceMore(k) ==
  IF k.state = "eInitializing" /\ k.retry <= MAX_CONNECTION_RETRY
  THEN [k EXCEPT !.retry = @ + 1, !.timer = TRUE]
  ELSE disconnectInternal(k)

\* Mutant: the retries are not counted.
errorOccurredUncounted(k) ==
  IF k.state = "eInitializing" THEN [k EXCEPT !.timer = TRUE] ELSE disconnectInternal(k)

errorOccurred(k) ==
  IF k.state = "eInitializing" /\ k.retry < MAX_CONNECTION_RETRY
  THEN [k EXCEPT !.retry = @ + 1, !.timer = TRUE]
  ELSE disconnectInternal(k)

\* connectToServer on a local socket succeeds or fails at once.
initializeInternal(k) ==
  LET t == [k EXCEPT !.state = "eInitializing", !.timer = FALSE]
  IN  IF up THEN [t EXCEPT !.sock = "open"] ELSE errorOccurred([t EXCEPT !.sock = "no"])

\* Mutant: a tunnel that is not up yet needs no deactivation.
WordsOnceUp(k) == IF k.shown = "connected" THEN <<Deactivate>> ELSE <<>>

\* deactivate: nothing is sent before the controller is ready.
Words(k) == IF k.state = "eReady" THEN <<Deactivate>> ELSE <<>>

\* It has asked the daemon for something and cannot tell it to stop.
Silent(k) == k.sock = "open" /\ k.state # "eReady"

(***************************************************************************)
(* A new protocol object, after the old one was stopped twice (by          *)
(* VpnConnection and by its destructor) and its socket closed: the new     *)
(* controller connects and the activation follows the first request.       *)
(***************************************************************************)
Connect(c) ==
  /\ asked < MaxAsked
  /\ asked' = asked + 1
  /\ LET k   == initializeInternal([NoController EXCEPT !.id = asked + 1, !.c = c,
                                                     !.wanted = TRUE])
         old == IF ctl.sock = "open" THEN [cmds EXCEPT ![ctl.id] = @ \o Words(ctl) \o Words(ctl)]
                ELSE cmds
     IN  /\ ctl' = IF k.shown = "disconnected" THEN k ELSE [k EXCEPT !.shown = "connecting"]
         /\ cmds' = IF k.sock = "open" THEN [old EXCEPT ![asked + 1] = <<Status, Activate(c)>>]
                    ELSE old
         /\ untold' = (untold \/ Silent(ctl) \/ k.sock # "open")
  /\ replies' = <<>>
  /\ UNCHANGED <<d, up, stack, reading, crossed, faults>>

\* VpnConnection::reconnectToVpn: stop and start of the same object, once it is connected.
Reconnect ==
  /\ asked < MaxAsked /\ ctl.shown = "connected"
  /\ asked' = asked + 1
  /\ ctl' = [ctl EXCEPT !.shown = "connecting"]
  /\ write(Words(ctl) \o <<Activate(ctl.c)>>)
  /\ untold' = (untold \/ ~ctl.wanted)
  /\ UNCHANGED <<d, up, stack, reading, replies, crossed, faults>>

\* VpnConnection::disconnectFromVpn: the object is stopped and stays.
Disconnect ==
  /\ ctl.wanted
  /\ ctl' = [ctl EXCEPT !.shown = "disconnected", !.wanted = FALSE]
  /\ write(Words(ctl))
  /\ untold' = (untold \/ Silent(ctl))
  /\ UNCHANGED <<d, up, stack, reading, replies, asked, crossed, faults>>

\* m_initializingTimer: daemonConnected asks for the status; the activation is not repeated.
InitializingTimer ==
  /\ ctl.timer
  /\ ctl' = initializeInternal(ctl)
  /\ cmds' = IF up THEN [cmds EXCEPT ![ctl.id] = <<Status>>] ELSE cmds
  /\ UNCHANGED <<d, up, stack, reading, replies, asked, untold, crossed, faults>>

\* The socket tells both its error and its end to errorOccurred, after the last reply.
PeerClosed ==
  /\ ctl.sock = "dead" /\ replies = <<>>
  /\ ctl' = errorOccurred(errorOccurred([ctl EXCEPT !.sock = "no"]))
  /\ UNCHANGED <<d, up, cmds, stack, reading, replies, asked, untold, crossed, faults>>

parseCommand(k, msg) ==
  CASE k.state = "eInitializing" -> IF msg = "status" THEN [k EXCEPT !.state = "eReady"] ELSE k
    [] k.state = "eReady" ->
         CASE msg = "disconnected" -> disconnectInternal(k)
           [] msg = "connected"    -> [k EXCEPT !.shown = "connected"]
           [] OTHER                -> k

ReadReply ==
  /\ replies # <<>>
  /\ ctl' = parseCommand(ctl, Head(replies))
  /\ replies' = Tail(replies)
  /\ UNCHANGED <<d, up, cmds, stack, reading, asked, untold, crossed, faults>>

(***************************************************************************)
(* The daemon's connections.  A connection of the past has no reader left. *)
(***************************************************************************)
Live(i) == ctl.id = i /\ ctl.sock = "open"

\* readData reads until nothing is left, or an activation waits; that connection is not read
\* again before it is over.  Older connections come first.
Waiting(i)  == \E n \in 1 .. Len(stack) : stack[n].id = i
Unread(i)   == cmds[i] # <<>> /\ ~Waiting(i)
Readable(i) == up /\ Unread(i) /\ (reading = 0 => \A j \in Connections : j < i => ~Unread(j))

Read(i) == Readable(i) /\ reading \in {0, i} /\ cmds' = [cmds EXCEPT ![i] = Tail(@)]
ReadOn(i) == reading' = IF cmds'[i] = <<>> THEN 0 ELSE i

\* Daemon::connected and Daemon::disconnected go to every connection.
broadcast(msg) == IF ctl.sock = "open" THEN Append(replies, msg) ELSE replies

\* Some deactivation waits, its own or an activation's.
Tearing == \E n \in 1 .. Len(stack) : stack[n].at \in {"down", "takeover"}

\* The activation of connection i, the innermost one, is where outcome o leaves it;
\* its failure is told to its own connection only.
Continue(i, o, outer) ==
  /\ d' = o.s
  /\ IF o.at \in {"done", "failed"}
     THEN stack' = outer /\ ReadOn(i)
     ELSE /\ stack' = Append(outer, [id |-> i, at |-> o.at, c |-> o.c, last |-> o.last])
          /\ reading' = 0
  /\ replies' = IF o.at = "failed" /\ Live(i) THEN Append(replies, "disconnected") ELSE replies
  /\ UNCHANGED <<up, ctl, asked, untold, faults>>

ReadStatus(i) ==
  /\ Read(i) /\ Head(cmds[i]).type = "status" /\ ReadOn(i)
  /\ replies' = IF Live(i) THEN Append(replies, "status") ELSE replies
  /\ UNCHANGED <<d, up, stack, ctl, asked, untold, crossed, faults>>

ReadActivate(i) ==
  /\ Read(i) /\ Head(cmds[i]).type = "activate"
  /\ \E o \in activateFirst(d, Head(cmds[i]).c) : Continue(i, o, stack)
  /\ crossed' = (crossed \/ Tearing)

\* The deactivation of connection i is where outcome o leaves it.
Retire(i, o) ==
  /\ d' = o.s
  /\ IF o.at = "done"
     THEN ReadOn(i) /\ UNCHANGED stack
     ELSE /\ stack' = Append(stack, [id |-> i, at |-> o.at, c |-> o.c, last |-> o.last])
          /\ reading' = 0
  /\ UNCHANGED <<up, ctl, asked, untold, crossed, faults>>

\* Mutant: only the connection that asked hears of it.
ReadDeactivateAlone(i) ==
  /\ Read(i) /\ Head(cmds[i]).type = "deactivate"
  /\ Retire(i, deactivateFirst(d))
  /\ replies' = IF Live(i) THEN Append(replies, "disconnected") ELSE replies

\* The end is told before the wait.  A deactivation read inside another's empties
\* m_connections, which the outer one is going through: undefined, here as if it had not.
ReadDeactivate(i) ==
  /\ Read(i) /\ Head(cmds[i]).type = "deactivate"
  /\ Retire(i, deactivateFirst(d))
  /\ replies' = broadcast("disconnected")

Resume ==
  /\ up /\ stack # <<>> /\ reading = 0
  /\ UNCHANGED <<cmds, crossed>>
  /\ LET n == Len(stack)
     IN  \E o \in resume(d, stack[n]) : Continue(stack[n].id, o, SubSeq(stack, 1, n - 1))

CheckHandshake ==
  /\ up /\ handshakeDue(d) /\ reading = 0
  /\ d' = checkHandshake(d)
  /\ replies' = broadcast("connected")
  /\ crossed' = (crossed \/ Tearing)
  /\ UNCHANGED <<up, cmds, stack, reading, ctl, asked, untold, faults>>

\* The process that a timed-out activation has killed is reaped; it may be another's by now.
ProcessReaped ==
  /\ d.proc = "killed"
  /\ d' = processGone(d)
  /\ untold' = (untold \/ d.fw.installed)
  /\ UNCHANGED <<up, cmds, stack, reading, ctl, replies, asked, crossed, faults>>

\* The connection object is freed under its own activation (its socket was closed): what it
\* had not read may be lost.
Freed(i) ==
  /\ up /\ Waiting(i) /\ ctl.id # i /\ cmds[i] # <<>>
  /\ cmds' = [cmds EXCEPT ![i] = <<>>]
  /\ untold' = TRUE
  /\ UNCHANGED <<d, up, stack, reading, ctl, replies, asked, crossed, faults>>

ServiceCrash ==
  /\ up /\ faults < MaxFaults
  /\ faults' = faults + 1
  /\ up' = FALSE
  /\ d' = serviceGone(d)
  /\ cmds' = [i \in Connections |-> <<>>]
  /\ stack' = <<>>
  /\ reading' = 0
  /\ ctl' = IF ctl.sock = "open" THEN [ctl EXCEPT !.sock = "dead"] ELSE ctl
  /\ untold' = TRUE
  /\ UNCHANGED <<replies, asked, crossed>>

ServiceStart ==
  /\ ~up
  /\ up' = TRUE
  /\ d' = init(d)
  /\ UNCHANGED <<cmds, stack, reading, ctl, replies, asked, untold, crossed, faults>>

Request ==
  \/ \E h \in Hosts : Connect([host |-> h, split |-> 0, ks |-> TRUE])
  \/ Reconnect \/ Disconnect

ClientStep == InitializingTimer \/ PeerClosed \/ ReadReply

DaemonStep ==
  \/ \E i \in Connections : ReadStatus(i) \/ ReadActivate(i) \/ ReadDeactivate(i)
  \/ Resume \/ ProcessReaped

Next ==
  \/ Request \/ ClientStep \/ DaemonStep \/ CheckHandshake
  \/ \E i \in Connections : Freed(i)
  \/ ServiceCrash \/ ServiceStart

(***************************************************************************)
(* The two event loops and the retry timer run; the waits of an activation *)
(* are bounded by timers.  Nothing makes a server answer a handshake, and  *)
(* nothing is assumed of the service being started again.                  *)
(***************************************************************************)
Spec == Init /\ [][Next]_vars /\ WF_vars(ClientStep) /\ WF_vars(DaemonStep)

-----------------------------------------------------------------------------
TypeOK ==
  /\ d.conn \in Configs \cup {NoConfig} /\ d.proc \in {"off", "running", "killed"}
  /\ \A i \in Connections : cmds[i] \in Seq([type : {"activate"}, c : Configs] \cup {Status, Deactivate})
  /\ replies \in Seq({"status", "connected", "disconnected"})
  /\ reading \in 0 .. MaxAsked
  /\ up \in BOOLEAN /\ untold \in BOOLEAN /\ crossed \in BOOLEAN
  /\ asked \in 0 .. MaxAsked /\ faults \in 0 .. MaxFaults
  /\ ctl.retry \in 0 .. MAX_CONNECTION_RETRY
  /\ ctl.timer => ctl.state = "eInitializing" /\ ctl.sock = "no"

Settled == up /\ stack = <<>> /\ replies = <<>> /\ \A i \in Connections : cmds[i] = <<>>

(***************************************************************************)
(* When every message has been read, the daemon has the connection that    *)
(* the client waits for or shows, also when an earlier session's           *)
(* activation was still waiting as it began, provided no session ended     *)
(* without the daemon being told. It may have none if an activation was    *)
(* begun, or a handshake reported, while a deactivation waited for         *)
(* amneziawg-go: that one goes on to end whatever connection it then finds,*)
(* and has told its end already. It never has another session's.           *)
(***************************************************************************)
ClientAgrees ==
  Settled /\ ~untold /\ ctl.shown \in {"connecting", "connected"}
  => (ctl.wanted /\ d.conn = ctl.c) \/ (crossed /\ d.conn = NoConfig)

(***************************************************************************)
(* When the client has no tunnel and every message has been read, the      *)
(* daemon keeps no connection, process, route, resolver or rule.           *)
(***************************************************************************)
NothingKept ==
  Settled /\ ~untold /\ ~ctl.wanted => d = freshService

(***************************************************************************)
(* A controller does not initialise for ever: it reads the daemon's first  *)
(* answer, or gives up after MAX_CONNECTION_RETRY retries and says so      *)
(* (errorOccurred), whether or not the service comes back.                 *)
(***************************************************************************)
InitializationEnds == (ctl.state = "eInitializing") ~> (ctl.state = "eReady")

=============================================================================
