----------------------------- MODULE PowerSwitch -----------------------------
(***************************************************************************)
(* What the privileged service promises its callers, without the steps it  *)
(* takes: a switch that is off or on with one configuration, and, while it *)
(* is on, a second switch that cuts the clients' traffic.                  *)
(***************************************************************************)
CONSTANTS Reqs, Off
VARIABLES on, cut

Init == on = Off /\ cut = FALSE

TurnOn  == on = Off /\ on' \in Reqs /\ UNCHANGED cut
TurnOff == on # Off /\ on' = Off /\ cut' = FALSE
SetCut  == on # Off /\ cut' \in BOOLEAN /\ UNCHANGED on

Spec == Init /\ [][TurnOn \/ TurnOff \/ SetCut]_<<on, cut>>
=============================================================================
