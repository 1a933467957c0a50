--------------------------- MODULE TrafficPolicy ---------------------------
(***************************************************************************)
(* What the kill switch of the privileged service promises, without the    *)
(* firewall, the daemon and the tunnels:                                   *)
(*   rules   "none"   no rule of ours decides on packets                   *)
(*           "full"   ordinary traffic outside a tunnel is rejected        *)
(*           "sites"  only what the split-tunnelling list names is kept    *)
(*                    inside the tunnel (a tunnel of mode 1)               *)
(*   strict  the mode in which traffic is blocked without a tunnel, too    *)
(*   alive   the service runs                                              *)
(* It implements killswitch.cpp's contract with its callers: whoever lets  *)
(* go of a tunnel may open the machine only in soft mode.                  *)
(***************************************************************************)
VARIABLES rules, strict, alive

vars == <<rules, strict, alive>>

Init == rules = "none" /\ strict = FALSE /\ alive = TRUE

\* A tunnel of some mode sets its rules; it needs nobody's permission.
Protect == alive /\ rules' \in {"full", "sites"} /\ UNCHANGED <<strict, alive>>

\* A tunnel is let go of.
Release ==
  /\ alive
  /\ rules' = IF strict THEN "full" ELSE "none"
  /\ UNCHANGED <<strict, alive>>

SetMode ==
  /\ alive
  /\ strict' \in BOOLEAN
  /\ rules' = IF strict' THEN "full" ELSE "none"
  /\ UNCHANGED alive

\* The process ends, possibly cleaning up behind it; the rules outlive it.
Die == alive /\ alive' = FALSE /\ rules' \in {rules, IF strict THEN "full" ELSE "none"}
       /\ UNCHANGED strict

Start ==
  /\ ~alive
  /\ alive' = TRUE
  /\ rules' = IF strict THEN "full" ELSE rules
  /\ UNCHANGED strict

\* Only a reboot takes the rules away behind the service's back.
Reboot == alive' = FALSE /\ rules' = "none" /\ UNCHANGED strict

Next == Protect \/ Release \/ SetMode \/ Die \/ Start \/ Reboot

Spec == Init /\ [][Next]_vars

(***************************************************************************)
(* In strict mode a running service never leaves the machine open          *)
(* (KillSwitch::init, refresh and disableKillSwitch all end blocked).      *)
(***************************************************************************)
FailClosed == strict /\ alive => rules # "none"

=============================================================================
