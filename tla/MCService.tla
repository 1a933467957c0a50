----------------------------- MODULE MCService -----------------------------
(***************************************************************************)
(* Small instances of Service for TLC.                                     *)
(***************************************************************************)
EXTENDS Service, TLC

\* Both kinds of split tunnelling under the kill switch, and a tunnel without it.
SomeOptions == {[split |-> 1, ks |-> TRUE], [split |-> 2, ks |-> TRUE], [split |-> 2, ks |-> FALSE]}

(***************************************************************************)
(* What a list of networks holds while its anchor is off makes no          *)
(* difference: no packet meets it, and every call that switches the anchor *)
(* on fills the list anew before it returns.  States that differ only      *)
(* there are one state to TLC.                                             *)
(***************************************************************************)
Listed(anchor, nets) == IF <<anchor, 4>> \in s.fw.on THEN nets ELSE {}

VisibleState ==
  LET fw == [s.fw EXCEPT !.allowNets = Listed(allowNets, @), !.blockNets = Listed(blockNets, @)]
  IN  <<[s EXCEPT !.fw = fw], up, frame, inbox, app, marks, faults>>

\* The servers are interchangeable.
ServerSymmetry == Permutations(Hosts)

=============================================================================
