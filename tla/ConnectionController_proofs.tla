---------------------- MODULE ConnectionController_proofs ----------------------
(***************************************************************************)
(* The failover of ConnectionController is bounded: the invariant           *)
(* ControllerInv is kept by every action of the user-interface thread,      *)
(* whatever the VPN thread signals. The modules that put the thread next to *)
(* a VPN thread cite these lemmas, one per action.                          *)
(***************************************************************************)
EXTENDS ConnectionController, SequenceTheorems, TLAPS

ControllerInv == ControllerTypeOK /\ FailoverBounded /\ LaunchedFromQueue

-----------------------------------------------------------------------------
(* The failover queue. *)

\* The queue has no server twice, starts with the requested one and is no
\* longer than kMaxAttempts (startFailover).
LEMMA CandidatesDistinct ==
    ASSUME NEW s \in Servers
    PROVE  /\ Candidates(s) \in Seq(Servers)
           /\ Len(Candidates(s)) \in 1..kMaxAttempts
           /\ Candidates(s)[1] = s
           /\ \A i, j \in 1..Len(Candidates(s)) :
                  Candidates(s)[i] = Candidates(s)[j] => i = j
<1> DEFINE n == Smaller(kMaxAttempts, Len(OrderedServerIds))
           pos == Position(s)
           at(i) == IF i <= pos THEN i - 1 ELSE i
           C == Candidates(s)
<1>1. n \in 1..kMaxAttempts /\ n <= Len(OrderedServerIds)
  BY ServersAssumption, ControllerAssumption DEF Smaller
<1>2. pos \in 1..Len(OrderedServerIds) /\ OrderedServerIds[pos] = s
  <2>1. \E i \in DOMAIN OrderedServerIds : OrderedServerIds[i] = s
    BY DEF Servers
  <2>2. DOMAIN OrderedServerIds = 1..Len(OrderedServerIds)
    BY ServersAssumption
  <2> QED BY <2>1, <2>2 DEF Position
<1>3. C = [i \in 1..n |-> IF i = 1 THEN s ELSE OrderedServerIds[at(i)]]
  BY <1>1, <1>2 DEF Candidates
<1> HIDE DEF n, pos, C
<1>4. ASSUME NEW i \in 2..n
      PROVE  at(i) \in 1..Len(OrderedServerIds) /\ at(i) # pos
  BY <1>1, <1>2
<1>5. ASSUME NEW i \in 2..n
      PROVE  OrderedServerIds[at(i)] \in Servers \ {s}
  BY <1>2, <1>4, ServersAssumption
<1>6. C \in [1..n -> Servers]
  BY <1>1, <1>3, <1>5
<1>7. C \in Seq(Servers) /\ Len(C) = n
  BY <1>1, <1>6
<1>8. ASSUME NEW i \in 1..n, NEW j \in 1..n, C[i] = C[j]
      PROVE  i = j
  <2>1. CASE i = 1 \/ j = 1
    BY <1>3, <1>5, <1>8, <2>1
  <2>2. CASE i # 1 /\ j # 1
    <3>1. OrderedServerIds[at(i)] = OrderedServerIds[at(j)]
      BY <1>3, <1>8, <2>2
    <3>2. at(i) = at(j)
      BY <1>4, <2>2, <3>1, ServersAssumption
    <3> QED BY <1>4, <2>2, <3>2, <1>2
  <2> QED BY <2>1, <2>2
<1>9. C[1] = s
  BY <1>1, <1>3
<1> QED BY <1>1, <1>7, <1>8, <1>9 DEF C

-----------------------------------------------------------------------------
(* What the two event queues hold. *)

\* The first event of the inbox carries what its type promises.
LEMMA FirstEvent ==
    ASSUME inbox \in Seq(Event), inbox # <<>>
    PROVE  /\ Tail(inbox) \in Seq(Event)
           /\ Head(inbox).type = "state" => Head(inbox).state \in ConnectionState
           /\ Head(inbox).type = "error" => Head(inbox).code \in ErrorCode
<1>1. Head(inbox) \in Event /\ Tail(inbox) \in Seq(Event)
  BY HeadTailProperties
<1>2. CASE Head(inbox) \in [type : {"state"}, state : ConnectionState,
                            attempt : Attempt]
  BY <1>1, <1>2
<1>3. CASE Head(inbox) \in [type : {"error"}, code : ErrorCode,
                            attempt : Attempt]
  BY <1>1, <1>3
<1>4. CASE Head(inbox) = OpenInvocation
  BY <1>1, <1>4 DEF OpenInvocation
<1> QED BY <1>1, <1>2, <1>3, <1>4 DEF Event, Signal

\* Requests keep the queue of the VPN thread well typed.
LEMMA PostedCommand ==
    ASSUME posted \in Seq(Command), launches \in Nat
    PROVE  /\ \A s \in Servers : Append(posted, Launch(s)) \in Seq(Command)
           /\ Append(posted, Disconnect) \in Seq(Command)
           /\ \A s \in RequestedState :
                  Append(posted, SetState(s)) \in Seq(Command)
           /\ \A s \in ConnectionState :
                  posted \o ErrorReply(s) \in Seq(Command)
<1>1. \A s \in Servers : Launch(s) \in Command
  BY DEF Launch, Connect, Command, Attempt
<1>2. Disconnect \in Command
  BY DEF Disconnect, Command
<1>3. \A s \in RequestedState : SetState(s) \in Command
  BY DEF SetState, Command
<1>4. SetState("Disconnected") \in Command
  BY <1>3 DEF RequestedState
<1>5. <<>> \in Seq(Command) /\ <<SetState("Disconnected")>> \in Seq(Command)
  BY <1>4
<1>6. \A s \in ConnectionState : posted \o ErrorReply(s) \in Seq(Command)
  BY <1>5, ConcatProperties DEF ErrorReply
<1> QED BY <1>1, <1>2, <1>3, <1>6, AppendProperties

\* What the user sees stays well typed (onConnectionStateChanged).
LEMMA ShowTyped ==
    ASSUME ControllerTypeOK, inbox # <<>>, NEW s \in ConnectionState, Show(s)
    PROVE  /\ ui' \in ConnectionState /\ pendingReconnect' \in BOOLEAN
           /\ validating' \in Nat /\ clicks' \in Nat
           /\ inbox' \in Seq(Event)
<1>1. Tail(inbox) \in Seq(Event)
  BY FirstEvent DEF ControllerTypeOK
<1>2. Append(Tail(inbox), OpenInvocation) \in Seq(Event)
  BY <1>1, AppendProperties DEF Event
<1> QED BY <1>1, <1>2 DEF Show, ControllerTypeOK

-----------------------------------------------------------------------------
(* The failover as a whole. *)

\* A step that leaves the failover and its history alone keeps both bounds.
LEMMA FailoverUntouched ==
    ASSUME ControllerInv,
           UNCHANGED <<queue, index, active, requested, launched>>
    PROVE  FailoverBounded' /\ LaunchedFromQueue'
BY DEF ControllerInv, FailoverBounded, LaunchedFromQueue, Candidates,
       Position, Smaller

\* So does one that ends the failover.
LEMMA FailoverEnded ==
    ASSUME ControllerInv, active' = FALSE, UNCHANGED launched
    PROVE  FailoverBounded' /\ LaunchedFromQueue'
BY DEF ControllerInv, FailoverBounded, LaunchedFromQueue

\* The next candidate has not been launched before, and there is room for it
\* (tryNextCandidate).
LEMMA NextCandidateFresh ==
    ASSUME ControllerInv, tryNextCandidate,
           UNCHANGED <<queue, active, requested>>
    PROVE  /\ FailoverBounded' /\ LaunchedFromQueue'
           /\ index' \in 0..Len(queue') /\ switching' \in BOOLEAN
           /\ launched' \in Seq(Servers) /\ launches' \in Nat
           /\ posted' \in Seq(Command)
<1> USE DEF ControllerInv
<1>1. PICK k \in Launchable :
          /\ index' = k
          /\ launched' = Append(launched, queue[k])
          /\ launches' = launches + 1
          /\ posted' = Append(posted, Launch(queue[k]))
  BY DEF tryNextCandidate
<1>2. /\ queue \in Seq(Servers) /\ index \in 0..Len(queue)
      /\ launched \in Seq(Servers) /\ launches \in Nat
      /\ posted \in Seq(Command)
  BY DEF ControllerTypeOK
<1>3. k \in (index + 1)..Len(queue) /\ queue[k] \in Servers
  BY <1>1, <1>2 DEF Launchable
<1>4. DOMAIN launched = 1..Len(launched)
  BY <1>2, LenProperties
<1>5. /\ active
      /\ queue = Candidates(requested)
      /\ Len(launched) <= index
      /\ \A i \in 1..Len(launched) :
             \E p \in 1..index : launched[i] = queue[p]
  BY <1>4 DEF tryNextCandidate, LaunchedFromQueue
<1>6. \A i, j \in 1..Len(launched) : launched[i] = launched[j] => i = j
  BY <1>4 DEF FailoverBounded
<1>7. /\ Len(queue) <= kMaxAttempts
      /\ \A i, j \in 1..Len(queue) : queue[i] = queue[j] => i = j
  BY <1>5, CandidatesDistinct, ControllerAssumption DEF ControllerTypeOK
<1>8. /\ launched' \in Seq(Servers)
      /\ Len(launched') = Len(launched) + 1
      /\ \A i \in 1..Len(launched) : launched'[i] = launched[i]
      /\ launched'[Len(launched) + 1] = queue[k]
  BY <1>1, <1>2, <1>3, AppendProperties
<1>9. DOMAIN launched' = 1..Len(launched')
  BY <1>8, LenProperties
<1>10. \A i \in 1..Len(launched) : launched[i] # queue[k]
  BY <1>2, <1>3, <1>5, <1>7
<1>11. Len(launched') <= index' /\ Len(launched') <= kMaxAttempts
  BY <1>1, <1>2, <1>3, <1>5, <1>7, <1>8, ControllerAssumption
<1>12. ASSUME NEW i \in 1..Len(launched'), NEW j \in 1..Len(launched'),
              launched'[i] = launched'[j]
       PROVE  i = j
  <2>1. Len(launched) \in Nat
    BY <1>2
  <2>2. CASE i \in 1..Len(launched) /\ j \in 1..Len(launched)
    BY <1>6, <1>8, <1>12, <2>2
  <2>3. CASE i = Len(launched) + 1 \/ j = Len(launched) + 1
    BY <1>8, <1>10, <1>12, <2>1, <2>3
  <2> QED BY <1>8, <2>1, <2>2, <2>3
<1>13. FailoverBounded'
  BY <1>9, <1>11, <1>12 DEF FailoverBounded
<1>14. ASSUME NEW i \in 1..Len(launched')
       PROVE  \E p \in 1..index' : launched'[i] = queue[p]
  <2>1. Len(launched) \in Nat
    BY <1>2
  <2>2. CASE i \in 1..Len(launched)
    BY <1>1, <1>2, <1>3, <1>5, <1>8, <2>2
  <2>3. CASE i = Len(launched) + 1
    BY <1>1, <1>2, <1>3, <1>8, <2>3
  <2> QED BY <1>8, <2>1, <2>2, <2>3
<1>15. queue' = Candidates(requested')
  BY <1>5
<1>16. LaunchedFromQueue'
  BY <1>9, <1>11, <1>14, <1>15 DEF LaunchedFromQueue
<1> QED BY <1>1, <1>2, <1>3, <1>8, <1>13, <1>16, PostedCommand
        DEF tryNextCandidate

\* finishFailover leaves an empty queue.
LEMMA FinishFailoverTyped ==
    ASSUME finishFailover
    PROVE  /\ queue' \in Seq(Servers) /\ Len(queue') <= kMaxAttempts
           /\ index' \in 0..Len(queue')
           /\ active' \in BOOLEAN /\ switching' \in BOOLEAN
           /\ budget' \in BOOLEAN
<1>1. <<>> \in Seq(Servers) /\ Len(<<>>) = 0
  BY EmptySeq
<1>2. queue' \in Seq(Servers) /\ Len(queue') = 0
  BY <1>1, Zenon DEF finishFailover
<1>3. Len(queue') \in Nat
  BY <1>2, LenProperties
<1>4. index' = 0 /\ active' = FALSE /\ switching' = FALSE /\ budget' = FALSE
  BY Zenon DEF finishFailover
<1>5. Len(queue') <= kMaxAttempts /\ index' \in 0..Len(queue')
  BY <1>2, <1>3, <1>4, ControllerAssumption
<1> QED BY <1>2, <1>4, <1>5, Zenon

\* An opening starts over with one launched server or none (openConnection).
LEMMA OpenConnectionKeeps ==
    ASSUME ControllerInv, NEW rest \in BOOLEAN, openConnection(rest),
           inbox' \in Seq(Event), validating' \in Nat, clicks' \in Nat
    PROVE  ControllerInv'
<1> USE DEF ControllerInv
<1> DEFINE s == defaultServer
           C == Candidates(s)
<1>1. s \in Servers
  BY DEF ControllerTypeOK
<1>2. /\ C \in Seq(Servers) /\ Len(C) \in 1..kMaxAttempts /\ C[1] = s
  BY <1>1, CandidatesDistinct
<1>3. /\ queue' = C /\ index' = 1 /\ requested' = s
      /\ active' \in BOOLEAN /\ budget' \in BOOLEAN
  BY DEF openConnection, startFailover, ControllerTypeOK
<1>4. /\ launches' \in Nat /\ posted' \in Seq(Command)
      /\ launched' = <<s>> \/ launched' = <<>>
  <2>1. "Disconnected" \in RequestedState
    BY DEF RequestedState
  <2>2. /\ posted \in Seq(Command) /\ launches \in Nat
    BY DEF ControllerTypeOK
  <2>3. /\ Append(posted, Launch(s)) \in Seq(Command)
        /\ Append(posted, SetState("Disconnected")) \in Seq(Command)
    BY <1>1, <2>1, <2>2, PostedCommand
  <2> QED BY <2>2, <2>3 DEF openConnection, notifyConnectionBlocked
<1>5. launched' \in Seq(Servers) /\ Len(launched') <= 1
  <2>1. <<>> \in Seq(Servers) /\ Len(<<>>) = 0
    BY EmptySeq
  <2>2. <<s>> \in Seq(Servers) /\ Len(<<s>>) = 1
    BY <1>1
  <2> HIDE DEF s
  <2>3. \/ launched' \in Seq(Servers) /\ Len(launched') = 0
        \/ launched' \in Seq(Servers) /\ Len(launched') = 1
    BY <1>4, <2>1, <2>2, Zenon
  <2>4. Len(launched') \in Nat
    BY <2>3, LenProperties
  <2> QED BY <2>3, <2>4
<1>6. ControllerTypeOK'
  <2>1. Len(queue') \in Nat /\ Len(queue') \in 1..kMaxAttempts
    BY <1>2, <1>3, LenProperties
  <2>2. Len(queue') <= kMaxAttempts /\ index' \in 0..Len(queue')
    BY <1>3, <2>1, ControllerAssumption
  <2>3. /\ wasConnecting' \in BOOLEAN /\ switching' \in BOOLEAN
        /\ overran' \in BOOLEAN /\ calm' \in BOOLEAN
        /\ lastProtocolError' = NoError /\ announced' = {}
        /\ intent' = "opening"
        /\ UNCHANGED <<ui, pendingReconnect, defaultServer>>
    BY DEF openConnection, startFailover
  <2> HIDE DEF s, C
  <2> QED BY <1>1, <1>2, <1>3, <1>4, <1>5, <2>2, <2>3 DEF ControllerTypeOK
<1>7. DOMAIN launched' = 1..Len(launched') /\ Len(launched') \in Nat
  BY <1>5, LenProperties
<1>8. FailoverBounded'
  BY <1>5, <1>7, ControllerAssumption DEF FailoverBounded
<1>9. \A i \in DOMAIN launched' : launched'[i] = queue'[1]
  BY <1>1, <1>2, <1>3, <1>4
<1>10. LaunchedFromQueue'
  BY <1>3, <1>5, <1>7, <1>9 DEF LaunchedFromQueue
<1> QED BY <1>6, <1>8, <1>10

-----------------------------------------------------------------------------
(* Every action of the user-interface thread keeps the invariant. *)

\* A delivered state, through each branch of handleConnectionState.
LEMMA HandleConnectionStateKeeps ==
    ASSUME ControllerInv, inbox # <<>>,
           NEW s \in ConnectionState, NEW code,
           HandleConnectionState(s, code)
    PROVE  ControllerInv'
<1> USE DEF ControllerInv
<1>1. ControllerTypeOK
  OBVIOUS
<1>2. CASE AttemptStarted(s)
  <2>1. ControllerTypeOK'
    BY <1>1, <1>2, ShowTyped
    DEF ControllerTypeOK, AttemptStarted, historyVars
  <2> QED BY <1>2, <2>1, FailoverUntouched DEF AttemptStarted, historyVars
<1>3. CASE TailIgnored(s)
  <2>1. ControllerTypeOK'
    BY <1>1, <1>3, FirstEvent
    DEF ControllerTypeOK, TailIgnored, controllerVars, failoverVars, uiVars,
        historyVars
  <2> QED BY <1>3, <2>1, FailoverUntouched
          DEF TailIgnored, controllerVars, failoverVars, historyVars
<1>4. CASE TunnelUp(s)
  <2>1. announced' \subseteq Servers
    BY <1>1, <1>4 DEF TunnelUp, ControllerTypeOK
  <2>2. ControllerTypeOK'
    BY <1>1, <1>4, <2>1, ShowTyped, FinishFailoverTyped
    DEF ControllerTypeOK, TunnelUp
  <2> QED BY <1>4, <2>2, FailoverEnded DEF TunnelUp, finishFailover
<1>5. ASSUME GiveUp(s)
      PROVE  ControllerInv'
  <2>1. posted' \in Seq(Command)
    BY <1>1, <1>5, PostedCommand DEF GiveUp, ControllerTypeOK
  <2>2. ControllerTypeOK'
    BY <1>1, <1>5, <2>1, ShowTyped, FinishFailoverTyped
    DEF ControllerTypeOK, GiveUp, historyVars
  <2> QED BY <1>5, <2>2, FailoverEnded DEF GiveUp, finishFailover, historyVars
<1>6. CASE SubscriptionFailure(s, code)
  BY <1>5, <1>6 DEF SubscriptionFailure
<1>7. CASE SwitchToBackup(s, code)
  <2>1. "Connecting" \in ConnectionState
    BY DEF ConnectionState
  <2>2. Show("Connecting") /\ tryNextCandidate
    BY <1>7 DEF SwitchToBackup
  <2>3. UNCHANGED <<queue, active, requested>>
    BY <1>7 DEF SwitchToBackup
  <2>4. /\ FailoverBounded' /\ LaunchedFromQueue'
        /\ index' \in 0..Len(queue') /\ switching' \in BOOLEAN
        /\ launched' \in Seq(Servers) /\ launches' \in Nat
        /\ posted' \in Seq(Command)
    BY <2>2, <2>3, NextCandidateFresh
  <2>5. ControllerTypeOK'
    BY <1>1, <1>7, <2>1, <2>2, <2>4, ShowTyped
    DEF ControllerTypeOK, SwitchToBackup
  <2> QED BY <2>4, <2>5
<1>8. CASE AttemptEnded(s, code)
  BY <1>5, <1>8 DEF AttemptEnded
<1> QED BY <1>2, <1>3, <1>4, <1>6, <1>7, <1>8 DEF HandleConnectionState

\* A delivered error code is only remembered.
LEMMA HandleProtocolErrorKeeps ==
    ASSUME ControllerInv, inbox # <<>>, NEW code \in ErrorCode,
           HandleProtocolError(code)
    PROVE  ControllerInv'
<1>1. ControllerTypeOK'
  BY FirstEvent
  DEF ControllerInv, ControllerTypeOK, HandleProtocolError, failoverVars,
      uiVars, historyVars
<1> QED BY <1>1, FailoverUntouched
        DEF ControllerInv, HandleProtocolError, failoverVars, historyVars

\* The time budget only switches the failover off.
LEMMA BudgetFiresKeeps ==
    ASSUME ControllerInv, BudgetFires
    PROVE  ControllerInv'
<1>1. ControllerTypeOK'
  BY DEF ControllerInv, ControllerTypeOK, BudgetFires, uiVars
<1> QED BY <1>1, FailoverEnded DEF ControllerInv, BudgetFires

\* A close only posts a request and leaves the failover alone.
LEMMA CloseConnectionKeeps ==
    ASSUME ControllerInv, closeConnection, clicks' \in Nat,
           pendingReconnect' \in BOOLEAN
    PROVE  ControllerInv'
<1>1. posted' \in Seq(Command)
  BY PostedCommand DEF ControllerInv, ControllerTypeOK, closeConnection
<1>2. ControllerTypeOK'
  BY <1>1 DEF ControllerInv, ControllerTypeOK, closeConnection, failoverVars
<1> QED BY <1>2, FailoverUntouched
        DEF ControllerInv, closeConnection, failoverVars

\* A request for a state, likewise.
LEMMA RequestStateKeeps ==
    ASSUME ControllerInv, NEW s \in RequestedState, RequestState(s),
           UNCHANGED <<ui, pendingReconnect, inbox>>,
           validating' \in Nat, clicks' \in Nat
    PROVE  ControllerInv'
<1>1. posted' \in Seq(Command)
  BY PostedCommand DEF ControllerInv, ControllerTypeOK, RequestState
<1>2. ControllerTypeOK'
  BY <1>1 DEF ControllerInv, ControllerTypeOK, RequestState, failoverVars
<1> QED BY <1>2, FailoverUntouched
        DEF ControllerInv, RequestState, failoverVars

\* Everything the user may click.
LEMMA UserKeeps ==
    ASSUME ControllerInv, NEW rest \in BOOLEAN,
           \/ ToggleOn \/ ToggleBlocked \/ ReconnectOpening(rest)
           \/ ToggleOff \/ switchProto \/ ReconnectClosing
           \/ \E s \in Servers : SetDefaultServer(s)
    PROVE  ControllerInv'
<1>1. /\ ControllerTypeOK
      /\ validating \in Nat /\ clicks \in Nat /\ pendingReconnect \in BOOLEAN
      /\ inbox \in Seq(Event)
  BY DEF ControllerInv, ControllerTypeOK
<1>2. "Preparing" \in RequestedState /\ "Disconnected" \in RequestedState
  BY DEF RequestedState
<1>3. CASE ToggleOn
  BY <1>1, <1>2, <1>3, RequestStateKeeps DEF ToggleOn, Click
<1>4. CASE ToggleBlocked
  BY <1>1, <1>2, <1>4, RequestStateKeeps DEF ToggleBlocked, Click
<1>5. CASE ReconnectOpening(rest)
  BY <1>1, <1>5, OpenConnectionKeeps DEF ReconnectOpening, Click
<1>6. CASE ToggleOff
  BY <1>1, <1>6, CloseConnectionKeeps DEF ToggleOff, Click
<1>7. CASE switchProto
  BY <1>1, <1>7, CloseConnectionKeeps DEF switchProto, Click
<1>8. CASE ReconnectClosing
  BY <1>1, <1>8, CloseConnectionKeeps DEF ReconnectClosing, Click
<1>9. ASSUME NEW s \in Servers, SetDefaultServer(s)
      PROVE  ControllerInv'
  <2>1. ControllerTypeOK'
    BY <1>1, <1>9
    DEF ControllerTypeOK, SetDefaultServer, Click, failoverVars, historyVars
  <2> QED BY <1>9, <2>1, FailoverUntouched
          DEF ControllerInv, SetDefaultServer, failoverVars, historyVars
<1> QED BY <1>3, <1>4, <1>5, <1>6, <1>7, <1>8, <1>9

\* The end of a validation opens a connection or asks for "Disconnected".
LEMMA ValidationKeeps ==
    ASSUME ControllerInv, NEW rest \in BOOLEAN,
           ConfigValidated(rest) \/ ConfigRefused
    PROVE  ControllerInv'
<1>1. validating \in Nat /\ clicks \in Nat /\ inbox \in Seq(Event)
  BY DEF ControllerInv, ControllerTypeOK
<1>2. CASE ConfigValidated(rest)
  <2>1. validating' \in Nat
    BY <1>1, <1>2 DEF ConfigValidated
  <2> QED BY <1>1, <1>2, <2>1, OpenConnectionKeeps DEF ConfigValidated
<1>3. CASE ConfigRefused
  <2>1. validating' \in Nat /\ "Disconnected" \in RequestedState
    BY <1>1, <1>3 DEF ConfigRefused, RequestedState
  <2> QED BY <1>1, <1>3, <2>1, RequestStateKeeps DEF ConfigRefused
<1> QED BY <1>2, <1>3

\* The opening a pending reconnect queued.
LEMMA ReopenKeeps ==
    ASSUME ControllerInv, inbox # <<>>, NEW rest \in BOOLEAN, Reopen(rest)
    PROVE  ControllerInv'
<1>1. inbox' \in Seq(Event) /\ validating' \in Nat /\ clicks' \in Nat
  BY FirstEvent DEF ControllerInv, ControllerTypeOK, Reopen
<1> QED BY <1>1, OpenConnectionKeeps DEF Reopen

\* The constructors leave no failover under way.
LEMMA ControllerInitInv ==
    ControllerInit => ControllerInv
<1> SUFFICES ASSUME ControllerInit PROVE ControllerInv
  OBVIOUS
<1>1. ControllerTypeOK
  <2>1. /\ <<>> \in Seq(Servers) /\ <<>> \in Seq(Command)
        /\ <<>> \in Seq(Event) /\ Len(<<>>) = 0
    BY EmptySeq
  <2>2. /\ queue \in Seq(Servers) /\ Len(queue) = 0
        /\ launched \in Seq(Servers)
        /\ posted \in Seq(Command) /\ inbox \in Seq(Event)
    BY <2>1, Zenon DEF ControllerInit
  <2>3. Len(queue) \in Nat
    BY <2>2, LenProperties
  <2>4. index = 0 /\ launches = 0 /\ validating = 0 /\ clicks = 0
    BY Zenon DEF ControllerInit
  <2>5. /\ Len(queue) <= kMaxAttempts /\ index \in 0..Len(queue)
        /\ launches \in Nat /\ validating \in Nat /\ clicks \in Nat
    BY <2>2, <2>3, <2>4, ControllerAssumption
  <2>6. "Disconnected" \in ConnectionState
    BY DEF ConnectionState
  <2> QED BY <2>2, <2>5, <2>6, Zenon DEF ControllerInit, ControllerTypeOK
<1>2. FailoverBounded /\ LaunchedFromQueue
  BY ControllerAssumption DEF ControllerInit, FailoverBounded, LaunchedFromQueue
<1> QED BY <1>1, <1>2 DEF ControllerInv
==============================================================================
