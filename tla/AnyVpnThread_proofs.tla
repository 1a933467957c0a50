-------------------------- MODULE AnyVpnThread_proofs --------------------------
(***************************************************************************)
(* The failover against a VPN thread that may signal anything: for any list *)
(* of servers, any kMaxAttempts and any number of clicks and messages, the  *)
(* queue is walked in order and at most once.                               *)
(***************************************************************************)
EXTENDS AnyVpnThread, ConnectionController_proofs

\* The VPN thread touches the two event queues only.
LEMMA VpnThreadKeeps ==
    ASSUME ControllerInv, VpnThread
    PROVE  ControllerInv'
<1> USE DEF ControllerInv
<1>1. UNCHANGED controllerVars
  BY DEF VpnThread, Say, Take
<1>2. posted' \in Seq(Command) /\ inbox' \in Seq(Event)
  <2>1. posted \in Seq(Command) /\ inbox \in Seq(Event)
    BY DEF ControllerTypeOK
  <2>2. ASSUME NEW e \in Signal, Say(e)
        PROVE  posted' \in Seq(Command) /\ inbox' \in Seq(Event)
    <3>1. e \in Event
      BY DEF Event
    <3> QED BY <2>1, <2>2, <3>1, AppendProperties DEF Say
  <2>3. CASE Take
    BY <2>1, <2>3, HeadTailProperties DEF Take
  <2> QED BY <2>2, <2>3 DEF VpnThread
<1>3. ControllerTypeOK'
  BY <1>1, <1>2
  DEF ControllerTypeOK, controllerVars, failoverVars, uiVars, historyVars
<1> QED BY <1>1, <1>3, FailoverUntouched
        DEF controllerVars, failoverVars, historyVars

\* Every step keeps the invariant, by the lemma of its action.
LEMMA StepKeeps ==
    ASSUME ControllerInv, [Next]_vars
    PROVE  ControllerInv'
<1>1. inbox \in Seq(Event)
  BY DEF ControllerInv, ControllerTypeOK
<1>2. CASE DeliverState
  <2>1. inbox # <<>> /\ Head(inbox).state \in ConnectionState
    BY <1>1, <1>2, FirstEvent DEF DeliverState, NextEvent
  <2>2. \E code : HandleConnectionState(Head(inbox).state, code)
    BY <1>2 DEF DeliverState
  <2> QED BY <2>1, <2>2, HandleConnectionStateKeeps
<1>3. CASE DeliverError
  <2>1. inbox # <<>> /\ Head(inbox).code \in ErrorCode
    BY <1>1, <1>3, FirstEvent DEF DeliverError, NextEvent
  <2> QED BY <1>3, <2>1, HandleProtocolErrorKeeps DEF DeliverError
<1>4. CASE DeliverOpen
  BY <1>4, ReopenKeeps DEF DeliverOpen, NextEvent
<1>5. CASE User
  BY <1>5, UserKeeps DEF User
<1>6. CASE Validation
  BY <1>6, ValidationKeeps DEF Validation
<1>7. CASE BudgetFires
  BY <1>7, BudgetFiresKeeps
<1>8. CASE VpnThread
  BY <1>8, VpnThreadKeeps
<1>9. CASE UNCHANGED vars
  <2>1. ControllerTypeOK'
    BY <1>9
    DEF ControllerInv, ControllerTypeOK, vars, controllerVars, failoverVars,
        uiVars, historyVars
  <2> QED BY <1>9, <2>1, FailoverUntouched
          DEF ControllerInv, vars, controllerVars, failoverVars, historyVars
<1> QED BY <1>2, <1>3, <1>4, <1>5, <1>6, <1>7, <1>8, <1>9 DEF Next

\* The inductive invariant holds throughout.
THEOREM FailoverInvariant == Spec => []ControllerInv
<1>1. Init => ControllerInv
  BY ControllerInitInv DEF Init
<1>2. ControllerInv /\ [Next]_vars => ControllerInv'
  BY StepKeeps
<1> QED BY <1>1, <1>2, PTL DEF Spec

\* The state of the user-interface thread keeps its types, the position stays
\* within the queue and the queue within kMaxAttempts, whatever is signalled.
THEOREM ControllerTyped == Spec => []ControllerTypeOK
<1>1. ControllerInv => ControllerTypeOK
  BY DEF ControllerInv
<1> QED BY <1>1, FailoverInvariant, PTL

\* No opening launches a server twice, or more than kMaxAttempts servers,
\* whatever is signalled (startFailover, tryNextCandidate).
THEOREM FailoverIsBounded == Spec => []FailoverBounded
<1>1. ControllerInv => FailoverBounded
  BY DEF ControllerInv
<1> QED BY <1>1, FailoverInvariant, PTL

\* While the failover is active, what was launched stands in the queue no later
\* than the current position.
THEOREM LaunchesFollowTheQueue == Spec => []LaunchedFromQueue
<1>1. ControllerInv => LaunchedFromQueue
  BY DEF ControllerInv
<1> QED BY <1>1, FailoverInvariant, PTL
==============================================================================
