----------------------------- MODULE AnyVpnThread -----------------------------
(***************************************************************************)
(* The user-interface thread against a VPN thread that may say anything: it *)
(* takes requests when it likes and signals any state and any error code,   *)
(* in any order and as often as it likes, codes of the subscription API     *)
(* included, which none of the desktop protocols reports today.             *)
(*                                                                          *)
(* What holds here holds for the failover whatever the protocols do. Nothing *)
(* bounds what is under way: this module is for proofs, not for TLC.         *)
(***************************************************************************)
EXTENDS ConnectionController

vars == <<controllerVars, posted, inbox>>

-----------------------------------------------------------------------------
(* The VPN thread. *)

Say(e) ==
    /\ inbox' = Append(inbox, e)
    /\ UNCHANGED <<controllerVars, posted>>

Take ==
    /\ posted # <<>>
    /\ posted' = Tail(posted)
    /\ UNCHANGED <<controllerVars, inbox>>

VpnThread == (\E e \in Signal : Say(e)) \/ Take

-----------------------------------------------------------------------------
(* The user-interface thread. *)

NextEvent(type) == inbox # <<>> /\ Head(inbox).type = type

\* The protocol's own error is any code the VPN thread cares to hold.
DeliverState ==
    /\ NextEvent("state")
    /\ \E fromProtocol \in ErrorCode \cup {NoError} :
           HandleConnectionState(Head(inbox).state,
                                 lastConnectionError(fromProtocol))

DeliverError == NextEvent("error") /\ HandleProtocolError(Head(inbox).code)

DeliverOpen == NextEvent("open") /\ Reopen(FALSE)

User ==
    \/ ToggleOn \/ ToggleBlocked \/ ReconnectOpening(FALSE)
    \/ ToggleOff \/ switchProto \/ ReconnectClosing
    \/ \E s \in Servers : SetDefaultServer(s)

Validation == ConfigValidated(FALSE) \/ ConfigRefused

Init == ControllerInit

Next == \/ DeliverState \/ DeliverError \/ DeliverOpen
        \/ User \/ Validation \/ BudgetFires \/ VpnThread

Spec == Init /\ [][Next]_vars
==============================================================================
